---- MODULE Spec2Model ----
(***************************************************************************)
(* spotify-youtube-mapper: the YouTube matching engine of lib/youtube.ts   *)
(* (filter, scorer, ranking, confidence classifier, query fallback) and    *)
(* the batch orchestrator searchTracks with its p-limit limiter.           *)
(*                                                                         *)
(* Conventions of the translation                                          *)
(*  - A JavaScript string is a TLA+ string; the operations that look       *)
(*    inside a string (toLowerCase, includes, split, Number) work on its   *)
(*    characters, given by the table CharsOf.                              *)
(*  - Scores are kept in tenths of a point (the source adds 2.5 and        *)
(*    r / 100 * 40 with integer r), so 40 points are 400 here.             *)
(*  - The answers of the fuzzball library are inputs: every catalogue      *)
(*    video carries the four ratios fuzzball returns for it against the    *)
(*    catalogue track (all catalogue tracks share name and artist).        *)
(*  - JavaScript null in a string-typed field is the string `null'.        *)
(***************************************************************************)
EXTENDS Integers, Sequences, FiniteSets, TLC

\* ------------------------------------------------------------------------
\* Bounds of the model
\* ------------------------------------------------------------------------
\* longest batch handed to searchTracks
MaxTracks == 3
\* longest result list of one search call
MaxVideos == 2
\* most requests one client posts to /api/search
MaxRequests == 3
\* most calls of checkRateLimit after the ones the window began with
MaxChecks == 4
\* most clicks on the fetch and map buttons of the page
MaxClicks == 2
\* most rate limit windows the page waits out
MaxWaits == 2

\* ------------------------------------------------------------------------
\* JavaScript strings
\* ------------------------------------------------------------------------
null == "null"

\* the characters of every string the model inspects
CharsOf ==
    "karaoke" :> <<"k", "a", "r", "a", "o", "k", "e">> @@
    "cover" :> <<"c", "o", "v", "e", "r">> @@
    "instrumental" :> <<"i", "n", "s", "t", "r", "u", "m", "e", "n", "t", "a", "l">> @@
    "remix" :> <<"r", "e", "m", "i", "x">> @@
    "tutorial" :> <<"t", "u", "t", "o", "r", "i", "a", "l">> @@
    "reaction" :> <<"r", "e", "a", "c", "t", "i", "o", "n">> @@
    "live" :> <<"l", "i", "v", "e">> @@
    "acoustic version" :> <<"a", "c", "o", "u", "s", "t", "i", "c", " ", "v", "e", "r", "s", "i", "o", "n">> @@
    "piano version" :> <<"p", "i", "a", "n", "o", " ", "v", "e", "r", "s", "i", "o", "n">> @@
    "slowed" :> <<"s", "l", "o", "w", "e", "d">> @@
    "reverb" :> <<"r", "e", "v", "e", "r", "b">> @@
    "8d audio" :> <<"8", "d", " ", "a", "u", "d", "i", "o">> @@
    "official" :> <<"o", "f", "f", "i", "c", "i", "a", "l">> @@
    "audio" :> <<"a", "u", "d", "i", "o">> @@
    "music video" :> <<"m", "u", "s", "i", "c", " ", "v", "i", "d", "e", "o">> @@
    "vevo" :> <<"v", "e", "v", "o">> @@
    " - topic" :> <<" ", "-", " ", "t", "o", "p", "i", "c">> @@
    "Beyonce - Halo (Official Audio)" :> <<"B", "e", "y", "o", "n", "c", "e", " ", "-", " ", "H", "a", "l", "o", " ", "(", "O", "f", "f", "i", "c", "i", "a", "l", " ", "A", "u", "d", "i", "o", ")">> @@
    "Halo KARAOKE" :> <<"H", "a", "l", "o", " ", "K", "A", "R", "A", "O", "K", "E">> @@
    "Beyonce Hits" :> <<"B", "e", "y", "o", "n", "c", "e", " ", "H", "i", "t", "s">> @@
    "Halo" :> <<"H", "a", "l", "o">> @@
    "Hola" :> <<"H", "o", "l", "a">> @@
    "Halo (Audio)" :> <<"H", "a", "l", "o", " ", "(", "A", "u", "d", "i", "o", ")">> @@
    "Hola (Audio)" :> <<"H", "o", "l", "a", " ", "(", "A", "u", "d", "i", "o", ")">> @@
    "Beyonce Halo Audio" :> <<"B", "e", "y", "o", "n", "c", "e", " ", "H", "a", "l", "o", " ", "A", "u", "d", "i", "o">> @@
    "Beyonce Hola Audio" :> <<"B", "e", "y", "o", "n", "c", "e", " ", "H", "o", "l", "a", " ", "A", "u", "d", "i", "o">> @@
    "BeyonceVEVO" :> <<"B", "e", "y", "o", "n", "c", "e", "V", "E", "V", "O">> @@
    "Sing King" :> <<"S", "i", "n", "g", " ", "K", "i", "n", "g">> @@
    "Mixes" :> <<"M", "i", "x", "e", "s">> @@
    "Lyrics" :> <<"L", "y", "r", "i", "c", "s">> @@
    "Beyonce - Topic" :> <<"B", "e", "y", "o", "n", "c", "e", " ", "-", " ", "T", "o", "p", "i", "c">> @@
    "4:21" :> <<"4", ":", "2", "1">> @@
    "4:20" :> <<"4", ":", "2", "0">> @@
    "1:02:03" :> <<"1", ":", "0", "2", ":", "0", "3">> @@
    "Halo Song" :> <<"H", "a", "l", "o", " ", "S", "o", "n", "g">> @@
    "Beyonce Audio" :> <<"B", "e", "y", "o", "n", "c", "e", " ", "A", "u", "d", "i", "o">> @@
    "Official Lyrics" :> <<"O", "f", "f", "i", "c", "i", "a", "l", " ", "L", "y", "r", "i", "c", "s">> @@
    "Beyonce" :> <<"B", "e", "y", "o", "n", "c", "e">> @@
    "0:00" :> <<"0", ":", "0", "0">> @@
    "n/a" :> <<"n", "/", "a">> @@
    "4:51" :> <<"4", ":", "5", "1">> @@
    "4:52" :> <<"4", ":", "5", "2">> @@
    "4:11" :> <<"4", ":", "1", "1">> @@
    "4:10" :> <<"4", ":", "1", "0">> @@
    "4:26" :> <<"4", ":", "2", "6">> @@
    "4:27" :> <<"4", ":", "2", "7">> @@
    "halo" :> <<"h", "a", "l", "o">> @@
    "beyonce" :> <<"b", "e", "y", "o", "n", "c", "e">> @@
    "Beyonce, Jay-Z" :> <<"B", "e", "y", "o", "n", "c", "e", ",", " ", "J", "a", "y", "-", "Z">> @@
    "Jay-Z" :> <<"J", "a", "y", "-", "Z">> @@
    "Unknown" :> <<"U", "n", "k", "n", "o", "w", "n">> @@
    "https://open.spotify.com/playlist/abc123?si=1" :> <<"h", "t", "t", "p", "s", ":", "/", "/", "o", "p", "e", "n", ".", "s", "p", "o", "t", "i", "f", "y", ".", "c", "o", "m", "/", "p", "l", "a", "y", "l", "i", "s", "t", "/", "a", "b", "c", "1", "2", "3", "?", "s", "i", "=", "1">> @@
    "https://open.spotify.com/playlist/zzz" :> <<"h", "t", "t", "p", "s", ":", "/", "/", "o", "p", "e", "n", ".", "s", "p", "o", "t", "i", "f", "y", ".", "c", "o", "m", "/", "p", "l", "a", "y", "l", "i", "s", "t", "/", "z", "z", "z">> @@
    "spotify:playlist:abc123" :> <<"s", "p", "o", "t", "i", "f", "y", ":", "p", "l", "a", "y", "l", "i", "s", "t", ":", "a", "b", "c", "1", "2", "3">> @@
    "https://open.spotify.com/playlist/" :> <<"h", "t", "t", "p", "s", ":", "/", "/", "o", "p", "e", "n", ".", "s", "p", "o", "t", "i", "f", "y", ".", "c", "o", "m", "/", "p", "l", "a", "y", "l", "i", "s", "t", "/">> @@
    "https://example.com/abc123" :> <<"h", "t", "t", "p", "s", ":", "/", "/", "e", "x", "a", "m", "p", "l", "e", ".", "c", "o", "m", "/", "a", "b", "c", "1", "2", "3">> @@
    " " :> <<" ">> @@
    "playlist/" :> <<"p", "l", "a", "y", "l", "i", "s", "t", "/">> @@
    "spotify:playlist:" :> <<"s", "p", "o", "t", "i", "f", "y", ":", "p", "l", "a", "y", "l", "i", "s", "t", ":">> @@
    "spotify.com/playlist/" :> <<"s", "p", "o", "t", "i", "f", "y", ".", "c", "o", "m", "/", "p", "l", "a", "y", "l", "i", "s", "t", "/">> @@
    "" :> <<>>

LowerOf ==
    "A" :> "a" @@ "B" :> "b" @@ "E" :> "e" @@ "H" :> "h" @@ "K" :> "k" @@
    "L" :> "l" @@ "M" :> "m" @@ "O" :> "o" @@ "R" :> "r" @@ "S" :> "s" @@
    "T" :> "t" @@ "V" :> "v" @@ "J" :> "j" @@ "Z" :> "z" @@ "U" :> "u"

DigitOf ==
    "0" :> 0 @@ "1" :> 1 @@ "2" :> 2 @@ "3" :> 3 @@ "4" :> 4 @@
    "5" :> 5 @@ "6" :> 6 @@ "7" :> 7 @@ "8" :> 8 @@ "9" :> 9

\* String.prototype.toLowerCase, on characters
toLowerCase(cs) ==
    [i \in DOMAIN cs |-> IF cs[i] \in DOMAIN LowerOf THEN LowerOf[cs[i]] ELSE cs[i]]

\* String.prototype.includes, on characters
includes(cs, sub) ==
    \E i \in 0..(Len(cs) - Len(sub)) : SubSeq(cs, i + 1, i + Len(sub)) = sub

\* String.prototype.split with a one-character separator
RECURSIVE split(_, _)
split(cs, sep) ==
    IF \E i \in DOMAIN cs : cs[i] = sep
    THEN LET i == CHOOSE k \in DOMAIN cs :
                      cs[k] = sep /\ \A j \in 1..(k - 1) : cs[j] # sep
         IN  <<SubSeq(cs, 1, i - 1)>> \o split(SubSeq(cs, i + 1, Len(cs)), sep)
    ELSE <<cs>>

\* the value isNaN() recognises
NaN == -1

RECURSIVE DecimalValue(_)
DecimalValue(cs) ==
    IF cs = <<>> THEN 0
    ELSE 10 * DecimalValue(SubSeq(cs, 1, Len(cs) - 1)) + DigitOf[cs[Len(cs)]]

\* Number(string) for the strings of a timestamp: "" is 0, a run of digits is
\* its value, anything else is NaN
Number(cs) ==
    IF \A i \in DOMAIN cs : cs[i] \in DOMAIN DigitOf THEN DecimalValue(cs) ELSE NaN

\* Math.round(ms / 1000) for ms >= 0
RoundDiv1000(ms) == (ms + 500) \div 1000

Abs(n) == IF n < 0 THEN -n ELSE n

\* ------------------------------------------------------------------------
\* lib/youtube.ts: constants
\* ------------------------------------------------------------------------
NEGATIVE_KEYWORDS ==
    { "karaoke", "cover", "instrumental", "remix", "tutorial", "reaction",
      "live", "acoustic version", "piano version", "slowed", "reverb",
      "8d audio" }

POSITIVE_KEYWORDS == { "official", "audio", "music video", "vevo" }

OFFICIAL_PATTERNS == { "vevo", " - topic", "official" }

MIN_MATCH_THRESHOLD == 40

\* default of isDurationMatch's parameter `tolerance'
tolerance == 5

\* ------------------------------------------------------------------------
\* lib/youtube.ts: duration
\* ------------------------------------------------------------------------
RECURSIVE ReduceTime(_)
\* parts.reduce((acc, val) => acc * 60 + val, 0)
ReduceTime(parts) ==
    IF parts = <<>> THEN 0
    ELSE ReduceTime(SubSeq(parts, 1, Len(parts) - 1)) * 60 + parts[Len(parts)]

\* a function of the string, so that each timestamp is parsed once
parseDuration[timestamp \in DOMAIN CharsOf] ==
    IF timestamp = "" THEN 0
    ELSE LET strs  == split(CharsOf[timestamp], ":")
             parts == [i \in DOMAIN strs |-> Number(strs[i])]
         IN  IF \E i \in DOMAIN parts : parts[i] = NaN THEN 0
             ELSE ReduceTime(parts)

isDurationMatch(spotifyMs, ytTimestamp) ==
    LET spotifySeconds == RoundDiv1000(spotifyMs)
        ytSeconds      == parseDuration[ytTimestamp]
    IN  IF ytSeconds = 0 THEN FALSE
        ELSE Abs(spotifySeconds - ytSeconds) <= tolerance

\* mutant: the two limits themselves are filtered
shouldFilterByDurationInclusive(spotifyMs, ytTimestamp) ==
    LET spotifySeconds == RoundDiv1000(spotifyMs)
        ytSeconds      == parseDuration[ytTimestamp]
    IN  \/ ytSeconds = 0
        \/ ytSeconds >= spotifySeconds + 30
        \/ ytSeconds <= spotifySeconds - 10

shouldFilterByDuration(spotifyMs, ytTimestamp) ==
    LET spotifySeconds == RoundDiv1000(spotifyMs)
        ytSeconds      == parseDuration[ytTimestamp]
    IN  \/ ytSeconds = 0
        \/ ytSeconds > spotifySeconds + 30
        \/ ytSeconds < spotifySeconds - 10

\* ------------------------------------------------------------------------
\* lib/youtube.ts: filter and scorer
\* ------------------------------------------------------------------------
hasNegativeKeyword[title \in DOMAIN CharsOf] ==
    LET lower == toLowerCase(CharsOf[title])
    IN  \E kw \in NEGATIVE_KEYWORDS : includes(lower, CharsOf[kw])

\* `track.duration_ms && video.timestamp': the field is present and not 0,
\* the timestamp is not the empty string
HasDuration(track) == "duration_ms" \in DOMAIN track /\ track.duration_ms # 0

\* OFFICIAL_PATTERNS.some(p => channelLower.includes(p))
matchesOfficialPattern[channel \in DOMAIN CharsOf] ==
    LET channelLower == toLowerCase(CharsOf[channel])
    IN  \E p \in OFFICIAL_PATTERNS : includes(channelLower, CharsOf[p])

\* fuzzball.token_set_ratio(artist, channel) is the video's channelRatio
isOfficialChannel(video) ==
    \/ matchesOfficialPattern[video.author.name]
    \/ video.channelRatio > 85

\* POSITIVE_KEYWORDS.some(kw => titleLower.includes(kw))
hasPositiveKeyword[title \in DOMAIN CharsOf] ==
    LET titleLower == toLowerCase(CharsOf[title])
    IN  \E kw \in POSITIVE_KEYWORDS : includes(titleLower, CharsOf[kw])

\* mutant: the view limits themselves earn the points
viewPointsInclusive(video) ==
    IF video.views >= 10000000 THEN 50
    ELSE IF video.views >= 1000000 THEN 25
    ELSE 0

\* view count points, in tenths
viewPoints(video) ==
    IF video.views > 10000000 THEN 50
    ELSE IF video.views > 1000000 THEN 25
    ELSE 0

Min(a, b) == IF a < b THEN a ELSE b

scoreVideo(video, track) ==
    LET fuzzyPoints == (video.fuzzyRatio * 40 * 10) \div 100
        hasDurationMatch ==
            /\ HasDuration(track)
            /\ video.timestamp # ""
            /\ isDurationMatch(track.duration_ms, video.timestamp)
        artistPoints ==
            IF video.titleArtistSimilarity > 80 \/ video.channelArtistSimilarity > 80
            THEN 150 ELSE 0
        isOfficial == isOfficialChannel(video)
        score == fuzzyPoints
                 + (IF hasDurationMatch THEN 250 ELSE 0)
                 + artistPoints
                 + (IF isOfficial THEN 100 ELSE 0)
                 + (IF hasPositiveKeyword[video.title] THEN 50 ELSE 0)
                 + viewPoints(video)
    IN  [ video            |-> video,
          score            |-> Min(score, 1000),
          hasDurationMatch |-> hasDurationMatch,
          isOfficial       |-> isOfficial,
          fuzzyScore       |-> video.fuzzyRatio ]

\* ------------------------------------------------------------------------
\* lib/youtube.ts: ranking and classification
\* ------------------------------------------------------------------------
Bit(b) == IF b THEN 1 ELSE 0

\* mutant: the official channel is not a criterion
compareCandidatesNoOfficial(a, b) ==
    IF a.score # b.score THEN b.score - a.score
    ELSE IF Bit(a.hasDurationMatch) # Bit(b.hasDurationMatch)
         THEN Bit(b.hasDurationMatch) - Bit(a.hasDurationMatch)
    ELSE IF a.fuzzyScore # b.fuzzyScore THEN b.fuzzyScore - a.fuzzyScore
    ELSE b.video.views - a.video.views

\* negative: a sorts before b
compareCandidates(a, b) ==
    IF a.score # b.score THEN b.score - a.score
    ELSE IF Bit(a.hasDurationMatch) # Bit(b.hasDurationMatch)
         THEN Bit(b.hasDurationMatch) - Bit(a.hasDurationMatch)
    ELSE IF Bit(a.isOfficial) # Bit(b.isOfficial)
         THEN Bit(b.isOfficial) - Bit(a.isOfficial)
    ELSE IF a.fuzzyScore # b.fuzzyScore THEN b.fuzzyScore - a.fuzzyScore
    ELSE b.video.views - a.video.views

\* Array.prototype.sort is stable: x goes behind every element that does not
\* sort after it
InsertSorted(sorted, x) ==
    LET k == Cardinality({i \in DOMAIN sorted : compareCandidates(sorted[i], x) <= 0})
    IN  SubSeq(sorted, 1, k) \o <<x>> \o SubSeq(sorted, k + 1, Len(sorted))

RECURSIVE sortCandidates(_)
sortCandidates(candidates) ==
    IF candidates = <<>> THEN <<>>
    ELSE InsertSorted(sortCandidates(SubSeq(candidates, 1, Len(candidates) - 1)),
                      candidates[Len(candidates)])

\* mutant: the band limits taken as exclusive
getConfidenceExclusive(score) ==
    IF score > 70 * 10 THEN "HIGH"
    ELSE IF score > 50 * 10 THEN "MEDIUM"
    ELSE "LOW"

getConfidence(score) ==
    IF score >= 70 * 10 THEN "HIGH"
    ELSE IF score >= 50 * 10 THEN "MEDIUM"
    ELSE "LOW"

\* ------------------------------------------------------------------------
\* Inputs: tracks and the videos the search collaborator can return
\* ------------------------------------------------------------------------
\* a TrackInput with duration_ms
TrackA == [name |-> "Halo", artists |-> "Beyonce", duration_ms |-> 261000]
\* a TrackInput without the optional duration_ms
TrackB == [name |-> "Halo", artists |-> "Beyonce"]
\* a null element of the batch: reading track.name throws
NullTrack == [jsnull |-> TRUE]

TrackCatalogue == {TrackA, TrackB, NullTrack}

\* the identity of TrackA in other letter case, and a track of another
\* identity with the same first artist
TrackLower == [name |-> "halo", artists |-> "beyonce"]
TrackDuet  == [name |-> "Halo", artists |-> "Beyonce, Jay-Z"]

\* a TrackInput whose duration_ms / 1000 lies halfway between two seconds
TrackHalf == [name |-> "Halo", artists |-> "Beyonce", duration_ms |-> 260500]

\* a yts.VideoSearchResult with fuzzball's ratios for it:
\*   fuzzyRatio              token_set_ratio(normalizedSpotify, normalizedYT)
\*   titleArtistSimilarity   partial_ratio(artist, title)
\*   channelArtistSimilarity partial_ratio(artist, channel)
\*   channelRatio            token_set_ratio(artist, channel)
Video(url, title, channel, timestamp, views, ratios) ==
    [ url       |-> url,
      title     |-> title,
      author    |-> [name |-> channel],
      timestamp |-> timestamp,
      views     |-> views,
      fuzzyRatio              |-> ratios[1],
      titleArtistSimilarity   |-> ratios[2],
      channelArtistSimilarity |-> ratios[3],
      channelRatio            |-> ratios[4] ]

VOfficial  == Video("yt/1", "Beyonce - Halo (Official Audio)", "BeyonceVEVO", "4:21",
                    500000000, <<100, 100, 100, 90>>)
VKaraoke   == Video("yt/2", "Halo KARAOKE", "Sing King", "4:20", 2000000, <<80, 0, 0, 0>>)
VLong      == Video("yt/3", "Beyonce Hits", "Mixes", "1:02:03", 50, <<30, 100, 0, 0>>)
VBare100   == Video("yt/4", "Halo", "Lyrics", "", 500, <<100, 0, 0, 0>>)
VBare99    == Video("yt/5", "Hola", "Lyrics", "", 500, <<99, 0, 0, 0>>)
VAudio100  == Video("yt/6", "Halo (Audio)", "Lyrics", "", 20000000, <<100, 0, 0, 0>>)
VAudio99   == Video("yt/7", "Hola (Audio)", "Lyrics", "", 20000000, <<99, 0, 0, 0>>)
VTopic100  == Video("yt/8", "Beyonce Halo Audio", "Beyonce - Topic", "", 100,
                    <<100, 100, 100, 100>>)
VTopic99   == Video("yt/9", "Beyonce Hola Audio", "Beyonce - Topic", "", 100,
                    <<99, 100, 100, 100>>)

Catalogue ==
    { VOfficial, VKaraoke, VLong, VBare100, VBare99, VAudio100, VAudio99,
      VTopic100, VTopic99 }

\* videos that differ from VBare100 in their timestamp only
VZero      == Video("yt/10", "Halo", "Lyrics", "0:00", 500, <<100, 0, 0, 0>>)
VMalformed == Video("yt/11", "Halo", "Lyrics", "n/a", 500, <<100, 0, 0, 0>>)
VPlus30    == Video("yt/12", "Halo", "Lyrics", "4:51", 500, <<100, 0, 0, 0>>)
VPlus31    == Video("yt/13", "Halo", "Lyrics", "4:52", 500, <<100, 0, 0, 0>>)
VMinus10   == Video("yt/14", "Halo", "Lyrics", "4:11", 500, <<100, 0, 0, 0>>)
VMinus11   == Video("yt/15", "Halo", "Lyrics", "4:10", 500, <<100, 0, 0, 0>>)
VPlus5     == Video("yt/16", "Halo", "Lyrics", "4:26", 500, <<100, 0, 0, 0>>)
VPlus6     == Video("yt/17", "Halo", "Lyrics", "4:27", 500, <<100, 0, 0, 0>>)
VExact     == Video("yt/18", "Halo", "Lyrics", "4:21", 500, <<100, 0, 0, 0>>)
\* videos that differ from VBare100 in their view count or their url only
VViews900  == Video("yt/19", "Halo", "Lyrics", "", 900, <<100, 0, 0, 0>>)
VTwin      == Video("yt/20", "Halo", "Lyrics", "", 500, <<100, 0, 0, 0>>)
VViews1M   == Video("yt/21", "Halo", "Lyrics", "", 1000000, <<100, 0, 0, 0>>)
VViews1M1  == Video("yt/22", "Halo", "Lyrics", "", 1000001, <<100, 0, 0, 0>>)
VViews10M  == Video("yt/23", "Halo", "Lyrics", "", 10000000, <<100, 0, 0, 0>>)
VViews10M1 == Video("yt/24", "Halo", "Lyrics", "", 10000001, <<100, 0, 0, 0>>)
\* videos at the thresholds of the artist and channel ratios
VArtist80  == Video("yt/25", "Halo", "Lyrics", "", 500, <<100, 80, 80, 0>>)
VArtist81  == Video("yt/26", "Halo", "Lyrics", "", 500, <<100, 0, 81, 0>>)
VChannel85 == Video("yt/27", "Halo", "Lyrics", "", 500, <<100, 0, 0, 85>>)
VChannel86 == Video("yt/28", "Halo", "Lyrics", "", 500, <<100, 0, 0, 86>>)
\* videos that reach the score of VBare100, or of VExact, on other signals
VTieOfficial == Video("yt/29", "Halo Song", "Official Lyrics", "", 500, <<75, 0, 0, 0>>)
VTieFuzzy    == Video("yt/30", "Beyonce Audio", "Lyrics", "", 500, <<50, 100, 0, 0>>)
VTieArtist   == Video("yt/31", "Halo", "Beyonce", "", 500, <<100, 0, 100, 100>>)

\* the videos the filter, the scorer and the ranking are tried on
ScoringCatalogue ==
    Catalogue \cup
    { VZero, VMalformed, VPlus30, VPlus31, VMinus10, VMinus11, VPlus5, VPlus6,
      VExact, VViews900, VTwin, VViews1M, VViews1M1, VViews10M, VViews10M1,
      VArtist80, VArtist81, VChannel85, VChannel86, VTieOfficial, VTieFuzzy,
      VTieArtist }

\* every result list of at most MaxVideos catalogue videos
VideoLists == UNION { [1..n -> Catalogue] : n \in 0..MaxVideos }

\* the result lists tried while several pipelines interleave
BatchVideoLists == { <<VOfficial>> }

\* the result lists the search collaborator may answer with in a batch of n
SearchResults(n) == IF n = 1 THEN VideoLists ELSE BatchVideoLists

Batches == UNION { [1..n -> TrackCatalogue] : n \in 1..MaxTracks }

\* ------------------------------------------------------------------------
\* lib/youtube.ts: searchSingleTrack
\* ------------------------------------------------------------------------
\* the template literals read track.name and track.artists
queriesThrow(track) == track = NullTrack

\* a query string, as its concatenated parts
queries(track) ==
    << <<track.name, " ", track.artists, " official audio">>,
       <<track.name, " ", track.artists, " official">>,
       <<track.name, " ", track.artists>> >>

YouTubeResult(url, title, channel, duration, confidence, reason) ==
    [ youtubeUrl |-> url, title |-> title, channel |-> channel,
      duration |-> duration, confidence |-> confidence, reason |-> reason ]

NullResult(reason) == YouTubeResult(null, null, null, null, null, reason)

\* `continue': the loop goes on to the next query
Continue == [continue |-> TRUE]

\* an error that leaves searchSingleTrack: its promise rejects
Escape == [escape |-> TRUE]

\* keeps the video: no negative keyword, and not filtered by duration when both
\* durations are there
KeepsVideo(video, track) ==
    /\ ~hasNegativeKeyword[video.title]
    /\ ~( /\ HasDuration(track)
          /\ video.timestamp # ""
          /\ shouldFilterByDuration(track.duration_ms, video.timestamp) )

RECURSIVE filterAndScore(_, _)
\* the loop over videos.slice(0, 10)
filterAndScore(videos, track) ==
    IF videos = <<>> THEN <<>>
    ELSE LET rest == filterAndScore(SubSeq(videos, 1, Len(videos) - 1), track)
             last == videos[Len(videos)]
         IN  IF KeepsVideo(last, track)
             THEN Append(rest, scoreVideo(last, track))
             ELSE rest

\* mutant: a LOW match reported without its confidence
MatchResultLowUnlabelled(best) ==
    LET confidence == getConfidence(best.score)
    IN  YouTubeResult(best.video.url, best.video.title, best.video.author.name,
                      best.video.timestamp,
                      IF confidence = "LOW" THEN null ELSE confidence,
                      IF confidence = "LOW" THEN "low_confidence" ELSE "matched")

\* mutant: only HIGH counts as matched
MatchResultOnlyHighMatched(best) ==
    LET confidence == getConfidence(best.score)
    IN  YouTubeResult(best.video.url, best.video.title, best.video.author.name,
                      best.video.timestamp, confidence,
                      IF confidence = "HIGH" THEN "matched" ELSE "low_confidence")

\* the result of a minimum-passing best candidate
MatchResult(best) ==
    LET confidence == getConfidence(best.score)
    IN  YouTubeResult(best.video.url, best.video.title, best.video.author.name,
                      best.video.timestamp, confidence,
                      IF confidence = "LOW" THEN "low_confidence" ELSE "matched")

\* mutant: an entirely filtered list falls through to the next query
allFilteredOutContinues(track) == Continue

\* `candidates.length === 0': all results filtered out
allFilteredOut(track) == NullResult("negative_keyword")

\* the best candidate is below the minimum threshold
belowThreshold(best) == NullResult("no_match")

\* mutant: the whole result list is filtered and scored
topResultsAll(videos) == videos

\* videos.slice(0, 10)
topResults(videos) == SubSeq(videos, 1, Min(10, Len(videos)))

\* the body of the try block once yts(query) has resolved to `videos'
onVideos(track, videos) ==
    IF Len(videos) = 0 THEN Continue
    ELSE LET candidates == filterAndScore(topResults(videos), track)
         IN  IF Len(candidates) = 0 THEN allFilteredOut(track)
             ELSE LET best == sortCandidates(candidates)[1]
                  IN  IF best.score < MIN_MATCH_THRESHOLD * 10
                      THEN belowThreshold(best)
                      ELSE MatchResult(best)

\* mutant: no catch in the loop, the error leaves searchSingleTrack
onSearchErrorEscapes(track) == Escape

\* mutant: the catch gives up instead of trying the next query
onSearchErrorGivesUp(track) == NullResult("no_results")

\* the catch block of the loop: continue to the next query on error
onSearchError(track) == Continue

\* the return after the loop: all queries failed
allQueriesFailed(track) == NullResult("no_results")

\* ------------------------------------------------------------------------
\* lib/youtube.ts: searchTracks
\* ------------------------------------------------------------------------
\* pLimit(2)
Concurrency == 2

SearchResult(track, result) ==
    [ track |-> track, youtubeUrl |-> result.youtubeUrl, title |-> result.title,
      channel |-> result.channel, confidence |-> result.confidence,
      reason |-> result.reason ]

\* the catch of the limited task
searchError(track) ==
    [ track |-> track, youtubeUrl |-> null, title |-> null, channel |-> null,
      confidence |-> null, reason |-> "search_error" ]

Pending == [state |-> "pending"]
Fulfilled(value) == [state |-> "fulfilled", value |-> value]
Rejected == [state |-> "rejected"]

\* mutant: the task has no catch, its promise rejects
onPipelineErrorRethrows(track) == Rejected

\* what the promise of one limited task settles to when searchSingleTrack
\* rejects
onPipelineError(track) == Fulfilled(searchError(track))

VARIABLES
    phase,        \* "idle" before searchTracks is called, "called" after
    tracks,       \* the batch handed to searchTracks
    queue,        \* p-limit: the tasks waiting for a slot, by position
    activeCount,  \* p-limit: the tasks holding a slot
    pipeline,     \* per position: "queued", "awaiting" (a yts call), "done"
    calls,        \* per position: the queries issued to yts so far
    responses,    \* per position: what yts answered so far
    settled,      \* per position: the promise of the limited task
    order,        \* the positions in the order their promises settled
    returned      \* the promise searchTracks returns

\* one run of the try body of searchSingleTrack, taken apart
VARIABLES
    evalStage,      \* "off", "found" (yts has resolved), "scored", "ranked"
    evalTrack,      \* the track searched for
    evalVideos,     \* result.videos
    evalCandidates, \* `candidates' after the loop over the videos
    evalSorted,     \* `candidates' after the sort
    evalResult      \* what the try body ends with

searchVars == <<phase, tracks, queue, activeCount, pipeline, calls, responses,
                settled, order, returned>>

evalVars == <<evalStage, evalTrack, evalVideos, evalCandidates, evalSorted,
              evalResult>>

\* the /api/search route and the stores of lib/cache.ts and lib/rateLimit.ts
VARIABLES
    routeState,     \* "off", "idle", "searching" (POST awaits searchTracks)
    now,            \* Date.now(), in ms
    elapsed,        \* time has passed since the last request
    served,         \* the requests received so far
    cacheStore,     \* lib/cache.ts: key -> {data, timestamp}
    rateLimitStore, \* lib/rateLimit.ts: key -> {count, resetAt}
    request,        \* the request POST is handling, or handled last
    results,        \* POST: `results'
    reply,          \* the response to `request'
    log             \* the cache and search calls POST made for `request'

routeVars == <<routeState, now, elapsed, served, cacheStore, rateLimitStore,
               request, results, reply, log>>

\* the calls of checkRateLimit, whichever route made them
VARIABLES
    checks          \* per call: endpoint, fingerprint, Date.now() and `allowed'

limitVars == <<checks>>

\* the page (Home), the browser's cookies and the playlist Spotify holds
VARIABLES
    pagePhase,      \* `phase'
    isLoggedIn,
    playlistUrl,
    playlistName,
    pageTracks,     \* `tracks'
    pageResults,    \* `results': track key -> SearchResult
    progress,
    pageError,      \* `error': the parts of the message, <<>> for ''
    task,           \* the call of fetchPlaylist or mapToYouTube in flight, with
                    \* its local variables
    jar,            \* the cookies of the browser: name -> value
    playlist,       \* the items of the playlist Spotify knows
    history         \* of the last call: what its requests returned, and the
                    \* Spotify and network errors it met

clientVars == <<pagePhase, isLoggedIn, playlistUrl, playlistName, pageTracks,
                pageResults, progress, pageError, task, jar, playlist, history>>

\* the OAuth routes /api/auth/login and /api/auth/callback
VARIABLES
    build,          \* which version of login/route.ts and callback/route.ts is
                    \* deployed, and whether the Spotify settings are there
    expiry,         \* cookie name -> the time the browser drops the cookie;
                    \* a session cookie has no entry
    visits          \* the requests the two routes answered, oldest first

authVars == <<build, expiry, visits>>

\* a second call of searchTracks, made while the first is under way
VARIABLES
    other           \* its phase, its limiter and promises, what yts answered
                    \* it, and the promise it returns

pairVars == <<other>>

restVars == <<authVars, pairVars>>

\* the state outside searchTracks, the search route and the stores
moreVars == <<limitVars, clientVars, restVars>>

vars == <<searchVars, evalVars, routeVars, moreVars>>

N == Len(tracks)

\* the part of the state the limiter and the pipelines work on
Machine ==
    [ queue |-> queue, activeCount |-> activeCount, pipeline |-> pipeline,
      calls |-> calls, settled |-> settled, order |-> order ]

\* mutant: a task that ends keeps its slot
settleKeepsSlot(m, i, promise) ==
    [m EXCEPT !.pipeline[i] = "done",
              !.settled[i] = promise,
              !.order = Append(@, i)]

\* a limited task ends: its promise settles and p-limit's next() frees the slot
settle(m, i, promise) ==
    [m EXCEPT !.pipeline[i] = "done",
              !.settled[i] = promise,
              !.order = Append(@, i),
              !.activeCount = @ - 1]

\* mutant: a query that yielded nothing is tried again
issueSameQuery(m, i, k) ==
    [m EXCEPT !.pipeline[i] = "awaiting",
              !.calls[i] = Append(@, queries(tracks[i])[1])]

\* yts(queries[k]) is called and awaited
issue(m, i, k) ==
    [m EXCEPT !.pipeline[i] = "awaiting",
              !.calls[i] = Append(@, queries(tracks[i])[k])]

\* the limited task of position i ends with `outcome': the result of
\* searchSingleTrack, or the error that left it
finish(m, i, outcome) ==
    IF outcome = Escape
    THEN settle(m, i, onPipelineError(tracks[i]))
    ELSE settle(m, i, Fulfilled(SearchResult(tracks[i], outcome)))

\* p-limit runs the task at the head of the queue: searchSingleTrack builds
\* its queries and awaits the first one, or throws at once
run(m) ==
    LET i  == Head(m.queue)
        m1 == [m EXCEPT !.queue = Tail(@), !.activeCount = @ + 1]
    IN  IF queriesThrow(tracks[i])
        THEN finish(m1, i, Escape)
        ELSE issue(m1, i, 1)

\* mutant: every queued task is started at once
mayRunUnlimited(m) == m.queue # <<>>

\* mutant: a queued task starts only when no task of the limiter runs
mayRunOneAtATime(m) == m.activeCount < 1 /\ m.queue # <<>>

\* p-limit starts a queued task whenever a slot is free
mayRun(m) == m.activeCount < Concurrency /\ m.queue # <<>>

RECURSIVE drain(_)
drain(m) == IF mayRun(m) THEN drain(run(m)) ELSE m

\* mutant: the values collected as the promises settle
PromiseAllInSettleOrder(promises, settleOrder) ==
    IF \E i \in DOMAIN promises : promises[i] = Rejected THEN Rejected
    ELSE IF \A i \in DOMAIN promises : promises[i].state = "fulfilled"
         THEN Fulfilled([k \in DOMAIN promises |-> promises[settleOrder[k]].value])
         ELSE Pending

\* Promise.all(promises): rejected as soon as one is, fulfilled with the
\* values by position once all are
PromiseAll(promises, settleOrder) ==
    IF \E i \in DOMAIN promises : promises[i] = Rejected THEN Rejected
    ELSE IF \A i \in DOMAIN promises : promises[i].state = "fulfilled"
         THEN Fulfilled([i \in DOMAIN promises |-> promises[i].value])
         ELSE Pending

Commit(m) ==
    /\ queue' = m.queue
    /\ activeCount' = m.activeCount
    /\ pipeline' = m.pipeline
    /\ calls' = m.calls
    /\ settled' = m.settled
    /\ order' = m.order
    /\ returned' = PromiseAll(m.settled, m.order)

\* no batch is searched
SearchOff ==
    /\ phase = "off"
    /\ tracks = <<>>
    /\ queue = <<>>
    /\ activeCount = 0
    /\ pipeline = <<>>
    /\ calls = <<>>
    /\ responses = <<>>
    /\ settled = <<>>
    /\ order = <<>>
    /\ returned = Pending

\* no try body is taken apart
EvalOff ==
    /\ evalStage = "off"
    /\ evalTrack = TrackB
    /\ evalVideos = <<>>
    /\ evalCandidates = <<>>
    /\ evalSorted = <<>>
    /\ evalResult = Continue

\* a Map
EmptyMap == [k \in {} |-> k]

MapSet(map, key, value) ==
    [k \in DOMAIN map \cup {key} |-> IF k = key THEN value ELSE map[k]]

MapDelete(map, key) == [k \in DOMAIN map \ {key} |-> map[k]]

\* the body of a request: whether `tracks' is an array, and its elements
Body(isArray, elements) == [isArray |-> isArray, tracks |-> elements]

NoRequest == [fingerprint |-> "", authenticated |-> FALSE, body |-> Body(FALSE, <<>>)]

\* a response: its status and, for an error, its `error' field
Response(status, error) == [status |-> status, error |-> error]

NoResponse == Response(0, "")

\* no request is handled
RouteOff ==
    /\ routeState = "off"
    /\ now = 0
    /\ elapsed = FALSE
    /\ served = 0
    /\ cacheStore = EmptyMap
    /\ rateLimitStore = EmptyMap
    /\ request = NoRequest
    /\ results = <<>>
    /\ reply = NoResponse
    /\ log = <<>>

\* no call of checkRateLimit is on record
LimitOff == checks = <<>>

NoTask == [fn |-> "none"]

NoHistory == [fn |-> "none", received |-> <<>>, faults |-> 0, chunks |-> <<>>]

\* no page is open
ClientOff ==
    /\ pagePhase = "idle"
    /\ isLoggedIn = FALSE
    /\ playlistUrl = ""
    /\ playlistName = ""
    /\ pageTracks = <<>>
    /\ pageResults = EmptyMap
    /\ progress = [current |-> 0, total |-> 0]
    /\ pageError = <<>>
    /\ task = NoTask
    /\ jar = EmptyMap
    /\ playlist = <<>>
    /\ history = NoHistory

\* the OAuth routes have answered no request
AuthOff ==
    /\ build = [login |-> 0, callback |-> 0, configured |-> FALSE]
    /\ expiry = EmptyMap
    /\ visits = <<>>

\* an invocation of searchTracks: its phase, its machine, the answers of yts
\* and the promise it returns
Invocation(stage, m, answers, promise) ==
    [phase |-> stage, machine |-> m, responses |-> answers, returned |-> promise]

\* the limiter and the promises of a call on `batch' before any task is queued
FreshMachine(batch) ==
    [ queue |-> <<>>, activeCount |-> 0,
      pipeline |-> [i \in 1..Len(batch) |-> "queued"],
      calls |-> [i \in 1..Len(batch) |-> <<>>],
      settled |-> [i \in 1..Len(batch) |-> Pending],
      order |-> <<>> ]

\* no second call is made
PairOff == other = Invocation("off", FreshMachine(<<>>), <<>>, Pending)

RestOff == AuthOff /\ PairOff

MoreOff == LimitOff /\ ClientOff /\ RestOff

Init ==
    /\ EvalOff
    /\ RouteOff
    /\ MoreOff
    /\ phase = "idle"
    /\ tracks \in Batches
    /\ queue = <<>>
    /\ activeCount = 0
    /\ pipeline = [i \in 1..Len(tracks) |-> "queued"]
    /\ calls = [i \in 1..Len(tracks) |-> <<>>]
    /\ responses = [i \in 1..Len(tracks) |-> <<>>]
    /\ settled = [i \in 1..Len(tracks) |-> Pending]
    /\ order = <<>>
    /\ returned = Pending

\* searchTracks(tracks): every track is handed to the limiter, which starts
\* the first ones
SearchTracks ==
    /\ phase = "idle"
    /\ phase' = "called"
    /\ UNCHANGED <<tracks, responses, evalVars, routeVars, moreVars>>
    /\ Commit(drain([Machine EXCEPT !.queue = [i \in 1..N |-> i]]))

Throws == [kind |-> "throws"]
Returns(videos) == [kind |-> "returns", videos |-> videos]

\* one turn of the query loop, after the awaited yts call ended with
\* `response': the try body or the catch block
onResponse(track, response) ==
    IF response = Throws THEN onSearchError(track)
    ELSE onVideos(track, response.videos)

\* mutant: a rejected search call is caught nowhere and rejects the task
resumeUncaught(m, i, response) ==
    IF response = Throws
    THEN drain(settle(m, i, Rejected))
    ELSE LET outcome == onVideos(tracks[i], response.videos)
         IN  IF outcome = Continue
             THEN IF Len(m.calls[i]) < Len(queries(tracks[i]))
                  THEN issue(m, i, Len(m.calls[i]) + 1)
                  ELSE drain(finish(m, i, allQueriesFailed(tracks[i])))
             ELSE drain(finish(m, i, outcome))

\* the pipeline of position i goes on after its awaited query ended with
\* `response'
resume(m, i, response) ==
    LET outcome == onResponse(tracks[i], response)
    IN  IF outcome = Continue
        THEN IF Len(m.calls[i]) < Len(queries(tracks[i]))
             THEN issue(m, i, Len(m.calls[i]) + 1)
             ELSE drain(finish(m, i, allQueriesFailed(tracks[i])))
        ELSE drain(finish(m, i, outcome))

\* the awaited yts call of position i resolves to a result with `videos'
YtsResolves(i, videos) ==
    /\ phase = "called"
    /\ pipeline[i] = "awaiting"
    /\ responses' = [responses EXCEPT ![i] = Append(@, Returns(videos))]
    /\ UNCHANGED <<phase, tracks, evalVars, routeVars, moreVars>>
    /\ \E m \in {resume(Machine, i, Returns(videos))} : Commit(m)

\* the awaited yts call of position i rejects
YtsRejects(i) ==
    /\ phase = "called"
    /\ pipeline[i] = "awaiting"
    /\ responses' = [responses EXCEPT ![i] = Append(@, Throws)]
    /\ UNCHANGED <<phase, tracks, evalVars, routeVars, moreVars>>
    /\ \E m \in {resume(Machine, i, Throws)} : Commit(m)

Next ==
    \/ SearchTracks
    \/ \E i \in 1..N : \E videos \in SearchResults(N) : YtsResolves(i, videos)
    \/ \E i \in 1..N : YtsRejects(i)

Spec == Init /\ [][Next]_vars

\* the awaited yts call of position i ends, one way or the other
YtsSettles(i) ==
    /\ i \in 1..N
    /\ \/ YtsRejects(i)
       \/ \E videos \in SearchResults(N) : YtsResolves(i, videos)

\* searchTracks with a yts whose calls all end: a call that stays awaited
\* is answered at some time
LiveSpec == Spec /\ \A i \in 1..MaxTracks : WF_vars(YtsSettles(i))

\* ------------------------------------------------------------------------
\* lib/youtube.ts: two calls of searchTracks under way at once, as when the
\* search route handles two requests for the same tracks
\* ------------------------------------------------------------------------
\* the second call's state after its machine has become m
Moved(m, answers) ==
    other' = Invocation("called", m, answers, PromiseAll(m.settled, m.order))

\* searchTracks(tracks), second call: its own pLimit(2) queues every track
OtherSearchTracks ==
    /\ other.phase = "idle"
    /\ \E m \in {drain([other.machine EXCEPT !.queue = [i \in 1..N |-> i]])} :
          Moved(m, other.responses)
    /\ UNCHANGED <<searchVars, evalVars, routeVars, limitVars, clientVars, authVars>>

\* an awaited yts call of the second call resolves (its searches all succeed)
OtherYtsResolves(i, videos) ==
    /\ other.phase = "called"
    /\ other.machine.pipeline[i] = "awaiting"
    /\ \E m \in {resume(other.machine, i, Returns(videos))} :
          Moved(m, [other.responses EXCEPT ![i] = Append(@, Returns(videos))])
    /\ UNCHANGED <<searchVars, evalVars, routeVars, limitVars, clientVars, authVars>>

\* the batches two requests ask for at the same time
PairBatches == [1..MaxTracks -> {TrackA}]

\* before the two calls
PairInit ==
    /\ EvalOff
    /\ RouteOff
    /\ LimitOff
    /\ ClientOff
    /\ AuthOff
    /\ phase = "idle"
    /\ tracks \in PairBatches
    /\ queue = <<>>
    /\ activeCount = 0
    /\ pipeline = [i \in 1..Len(tracks) |-> "queued"]
    /\ calls = [i \in 1..Len(tracks) |-> <<>>]
    /\ responses = [i \in 1..Len(tracks) |-> <<>>]
    /\ settled = [i \in 1..Len(tracks) |-> Pending]
    /\ order = <<>>
    /\ returned = Pending
    /\ other = Invocation("idle", FreshMachine(tracks),
                          [i \in 1..Len(tracks) |-> <<>>], Pending)

PairNext ==
    \/ SearchTracks
    \/ \E i \in 1..N : \E videos \in BatchVideoLists : YtsResolves(i, videos)
    \/ \E i \in 1..N : YtsRejects(i)
    \/ OtherSearchTracks
    \/ \E i \in 1..N : \E videos \in BatchVideoLists : OtherYtsResolves(i, videos)

PairSpec == PairInit /\ [][PairNext]_vars

\* ------------------------------------------------------------------------
\* lib/youtube.ts: the try body of searchSingleTrack on one result list
\* ------------------------------------------------------------------------
\* the tracks and result lists the try body is run on
EvalTracks == {TrackA, TrackB, TrackHalf}

\* the longest result list tried
MaxLong == 12

\* result lists of more than 10 videos: ten times one video, then another
LongLists ==
    { [k \in 1..n |-> IF k <= 10 THEN head ELSE last] :
        n \in 11..MaxLong,
        head \in {VKaraoke, VBare99, VOfficial},
        last \in {VOfficial, VAudio100, VKaraoke} }

EvalVideoLists ==
    UNION { [1..n -> ScoringCatalogue] : n \in 1..MaxVideos } \cup LongLists

\* yts(query) has resolved to a non-empty list for some track
EvalInit ==
    /\ SearchOff
    /\ RouteOff
    /\ MoreOff
    /\ evalStage = "found"
    /\ evalTrack \in EvalTracks
    /\ evalVideos \in EvalVideoLists
    /\ evalCandidates = <<>>
    /\ evalSorted = <<>>
    /\ evalResult = Continue

\* the loop over videos.slice(0, 10): filter, then score
FilterAndScore ==
    /\ evalStage = "found"
    /\ evalStage' = "scored"
    /\ evalCandidates' =
          filterAndScore(topResults(evalVideos), evalTrack)
    /\ UNCHANGED <<evalTrack, evalVideos, evalSorted, evalResult, searchVars,
                   routeVars, moreVars>>

\* the rest of the try body: empty check, sort, threshold, classification
RankAndClassify ==
    /\ evalStage = "scored"
    /\ evalStage' = "ranked"
    /\ evalSorted' = sortCandidates(evalCandidates)
    /\ evalResult' = onVideos(evalTrack, evalVideos)
    /\ UNCHANGED <<evalTrack, evalVideos, evalCandidates, searchVars, routeVars,
                   moreVars>>

EvalNext == FilterAndScore \/ RankAndClassify

EvalSpec == EvalInit /\ [][EvalNext]_vars

\* ------------------------------------------------------------------------
\* lib/cache.ts
\* ------------------------------------------------------------------------
CACHE_TTL_MS == 24 * 60 * 60 * 1000

\* a function of the string, so that each string is lower-cased once
lowerCase[s \in DOMAIN CharsOf] == toLowerCase(CharsOf[s])

\* mutant: the key keeps the letter case
getCacheKeyCaseSensitive(name, artists) == CharsOf[name] \o <<"|">> \o CharsOf[artists]

\* `${name.toLowerCase()}|${artists.toLowerCase()}`, as characters
getCacheKey(name, artists) == lowerCase[name] \o <<"|">> \o lowerCase[artists]

\* mutant: an entry of exactly 24 hours has expired
isExpiredAtTtl(entry, time) == time - entry.timestamp >= CACHE_TTL_MS

\* Date.now() - entry.timestamp > CACHE_TTL_MS
isExpired(entry, time) == time - entry.timestamp > CACHE_TTL_MS

\* the store after the lookup, and the data found if any
getCachedResult(store, name, artists, time) ==
    LET key == getCacheKey(name, artists)
    IN  IF key \notin DOMAIN store
        THEN [store |-> store, found |-> FALSE]
        ELSE IF isExpired(store[key], time)
             THEN [store |-> MapDelete(store, key), found |-> FALSE]
             ELSE [store |-> store, found |-> TRUE, data |-> store[key].data]

\* mutant: only a record with a URL is cached
setCachedResultIfFound(store, name, artists, result, time) ==
    IF result.youtubeUrl = null THEN store
    ELSE MapSet(store, getCacheKey(name, artists), [data |-> result, timestamp |-> time])

setCachedResult(store, name, artists, result, time) ==
    MapSet(store, getCacheKey(name, artists), [data |-> result, timestamp |-> time])

\* ------------------------------------------------------------------------
\* lib/rateLimit.ts
\* ------------------------------------------------------------------------
RATE_LIMITS ==
    [ playlist |-> [maxRequests |-> 3, windowMs |-> 60 * 1000],
      search   |-> [maxRequests |-> 10, windowMs |-> 60 * 1000],
      refresh  |-> [maxRequests |-> 5, windowMs |-> 60 * 1000] ]

\* mutant: the window is over only after resetAt
isOverAfterReset(entry, time) == entry.resetAt < time

\* existing.resetAt <= now
isOver(entry, time) == entry.resetAt <= time

\* mutant: one request more than maxRequests passes
isExceededAbove(entry, config) == entry.count > config.maxRequests

\* current.count >= config.maxRequests
isExceeded(entry, config) == entry.count >= config.maxRequests

\* mutant: a denied call starts the window anew
deniedExtends(store, key, config, time) ==
    MapSet(store, key, [store[key] EXCEPT !.resetAt = time + config.windowMs])

\* `Rate limit exceeded': the store is not written
denied(store, key, config, time) == store

\* the store after the call, and the result returned
checkRateLimit(store, fingerprint, endpoint, time) ==
    LET config  == RATE_LIMITS[endpoint]
        key     == <<endpoint, fingerprint>>
        cleaned == IF key \in DOMAIN store /\ isOver(store[key], time)
                   THEN MapDelete(store, key)
                   ELSE store
    IN  IF key \notin DOMAIN cleaned
        THEN [ store     |-> MapSet(cleaned, key,
                                    [count |-> 1, resetAt |-> time + config.windowMs]),
               allowed   |-> TRUE,
               remaining |-> config.maxRequests - 1,
               resetIn   |-> config.windowMs ]
        ELSE IF isExceeded(cleaned[key], config)
             THEN [ store     |-> denied(cleaned, key, config, time),
                    allowed   |-> FALSE,
                    remaining |-> 0,
                    resetIn   |-> cleaned[key].resetAt - time ]
             ELSE LET current == [cleaned[key] EXCEPT !.count = @ + 1]
                  IN  [ store     |-> MapSet(cleaned, key, current),
                        allowed   |-> TRUE,
                        remaining |-> config.maxRequests - current.count,
                        resetIn   |-> current.resetAt - time ]

\* ------------------------------------------------------------------------
\* app/api/search/route.ts: POST
\* ------------------------------------------------------------------------
MAX_BATCH_SIZE == 10

\* `!t.name': the field is missing or the empty string
IsFalsy(t, field) == field \notin DOMAIN t \/ t[field] = ""

RECURSIVE findInvalidTrack(_)
\* tracks.find(t => !t.name || !t.artists): "found", "none", or "throws" when
\* the callback reads a field of null
findInvalidTrack(ts) ==
    IF ts = <<>> THEN "none"
    ELSE IF Head(ts) = NullTrack THEN "throws"
    ELSE IF IsFalsy(Head(ts), "name") \/ IsFalsy(Head(ts), "artists") THEN "found"
    ELSE findInvalidTrack(Tail(ts))

\* mutant: a batch of MAX_BATCH_SIZE tracks is too large
isTooLargeAtLimit(ts) == Len(ts) >= MAX_BATCH_SIZE

\* tracks.length > MAX_BATCH_SIZE
isTooLarge(ts) == Len(ts) > MAX_BATCH_SIZE

CacheGet(key, found) == [op |-> "get", key |-> key, found |-> found]
CacheSet(key, result) == [op |-> "set", key |-> key, result |-> result]
SearchCall(ts) == [op |-> "search", tracks |-> ts]

RECURSIVE checkCacheSearchesAll(_, _, _)
\* mutant: a track found in the cache is searched all the same
checkCacheSearchesAll(ts, acc, time) ==
    IF ts = <<>> THEN acc
    ELSE LET track  == Head(ts)
             cached == getCachedResult(acc.store, track.name, track.artists, time)
         IN  checkCacheSearchesAll(Tail(ts),
                 [ store          |-> cached.store,
                   results        |-> IF cached.found
                                      THEN Append(acc.results, cached.data)
                                      ELSE acc.results,
                   uncachedTracks |-> Append(acc.uncachedTracks, track),
                   log            |-> Append(acc.log,
                                         CacheGet(getCacheKey(track.name, track.artists),
                                                  cached.found)) ],
                 time)

RECURSIVE checkCache(_, _, _)
\* the loop `Check cache first': acc holds the store, `results',
\* `uncachedTracks' and the calls made
checkCache(ts, acc, time) ==
    IF ts = <<>> THEN acc
    ELSE LET track  == Head(ts)
             cached == getCachedResult(acc.store, track.name, track.artists, time)
         IN  checkCache(Tail(ts),
                 [ store          |-> cached.store,
                   results        |-> IF cached.found
                                      THEN Append(acc.results, cached.data)
                                      ELSE acc.results,
                   uncachedTracks |-> IF cached.found
                                      THEN acc.uncachedTracks
                                      ELSE Append(acc.uncachedTracks, track),
                   log            |-> Append(acc.log,
                                         CacheGet(getCacheKey(track.name, track.artists),
                                                  cached.found)) ],
                 time)

RECURSIVE cacheResults(_, _, _)
\* the loop `Cache and add results' over searchResults
cacheResults(searchResults, acc, time) ==
    IF searchResults = <<>> THEN acc
    ELSE LET result == Head(searchResults)
         IN  cacheResults(Tail(searchResults),
                 [ store   |-> setCachedResult(acc.store, result.track.name,
                                               result.track.artists, result, time),
                   results |-> Append(acc.results, result),
                   log     |-> Append(acc.log,
                                  CacheSet(getCacheKey(result.track.name,
                                                       result.track.artists),
                                           result)) ],
                 time)

\* r.track.name === track.name && r.track.artists === track.artists
isResultOf(r, track) == r.track.name = track.name /\ r.track.artists = track.artists

RECURSIVE orderedResults(_, _)
\* tracks.map(track => results.find(...)).filter(r => r !== undefined)
orderedResults(ts, found) ==
    IF ts = <<>> THEN <<>>
    ELSE LET hits == {k \in DOMAIN found : isResultOf(found[k], Head(ts))}
         IN  IF hits = {}
             THEN orderedResults(Tail(ts), found)
             ELSE <<found[CHOOSE k \in hits : \A j \in hits : k <= j]>>
                  \o orderedResults(Tail(ts), found)

\* the 200 response
Ok(ts, found, searched) ==
    [ status   |-> 200,
      error    |-> "",
      results  |-> orderedResults(ts, found),
      cached   |-> Len(ts) - searched,
      searched |-> searched ]

\* the client of the model, and the time that may pass between two requests
Fingerprints == {"client"}

Delays == {CACHE_TTL_MS, CACHE_TTL_MS + 1}

\* the objects a client may put in the place of a track
NoName    == [artists |-> "Beyonce"]
NoArtists == [name |-> "Halo"]
EmptyName == [name |-> "", artists |-> "Beyonce"]

\* the bodies a client may post
Bodies ==
    { Body(FALSE, <<>>),
      Body(TRUE, <<>>),
      Body(TRUE, <<NoName>>),
      Body(TRUE, <<NoArtists>>),
      Body(TRUE, <<TrackA, EmptyName>>),
      Body(TRUE, <<NullTrack>>),
      Body(TRUE, <<NullTrack, NoName>>),
      Body(TRUE, [i \in 1..(MAX_BATCH_SIZE + 1) |-> TrackA]),
      Body(TRUE, [i \in 1..MAX_BATCH_SIZE |-> IF i = 1 THEN TrackDuet ELSE TrackA]),
      Body(TRUE, <<TrackA>>),
      Body(TRUE, <<TrackB>>),
      Body(TRUE, <<TrackLower>>),
      Body(TRUE, <<TrackA, TrackDuet>>),
      Body(TRUE, <<TrackDuet, TrackA>>),
      Body(TRUE, <<TrackA, TrackB>>) }

Requests ==
    [fingerprint : Fingerprints, authenticated : BOOLEAN, body : Bodies]

\* the rate limit entry after n requests of the client at time 0
RateLimitAfter(n) ==
    IF n = 0 THEN EmptyMap
    ELSE MapSet(EmptyMap, <<"search", "client">>,
                [count |-> n, resetAt |-> RATE_LIMITS.search.windowMs])

\* the server is up; its client has posted no request, or has been refused
\* all but one of the requests of its window for lack of a session
RouteInit ==
    /\ SearchOff
    /\ EvalOff
    /\ MoreOff
    /\ routeState = "idle"
    /\ now = 0
    /\ elapsed = FALSE
    /\ served = 0
    /\ cacheStore = EmptyMap
    /\ rateLimitStore \in {RateLimitAfter(0), RateLimitAfter(RATE_LIMITS.search.maxRequests - 1)}
    /\ request = NoRequest
    /\ results = <<>>
    /\ reply = NoResponse
    /\ log = <<>>

\* POST returns a response without searching
Answer(res, checked) ==
    /\ routeState' = "idle"
    /\ reply' = res
    /\ cacheStore' = checked.store
    /\ results' = checked.results
    /\ log' = checked.log
    /\ UNCHANGED searchVars

\* POST awaits searchTracks(uncachedTracks)
AwaitSearch(checked) ==
    /\ routeState' = "searching"
    /\ reply' = NoResponse
    /\ cacheStore' = checked.store
    /\ results' = checked.results
    /\ log' = Append(checked.log, SearchCall(checked.uncachedTracks))
    /\ phase' = "idle"
    /\ tracks' = checked.uncachedTracks
    /\ queue' = <<>>
    /\ activeCount' = 0
    /\ pipeline' = [i \in 1..Len(checked.uncachedTracks) |-> "queued"]
    /\ calls' = [i \in 1..Len(checked.uncachedTracks) |-> <<>>]
    /\ responses' = [i \in 1..Len(checked.uncachedTracks) |-> <<>>]
    /\ settled' = [i \in 1..Len(checked.uncachedTracks) |-> Pending]
    /\ order' = <<>>
    /\ returned' = Pending

\* POST, from the rate limit check to its response or to the call of
\* searchTracks
PostSearch(req) ==
    /\ routeState = "idle"
    /\ served < MaxRequests
    /\ served' = served + 1
    /\ elapsed' = FALSE
    /\ request' = req
    /\ UNCHANGED <<now, evalVars, moreVars>>
    /\ LET rateLimitResult == checkRateLimit(rateLimitStore, req.fingerprint, "search", now)
           ts              == req.body.tracks
           unchecked       == [ store |-> cacheStore, results |-> <<>>,
                                uncachedTracks |-> <<>>, log |-> <<>> ]
       IN  /\ rateLimitStore' = rateLimitResult.store
           /\ IF ~rateLimitResult.allowed
              THEN Answer(Response(429, "rate_limit_exceeded"), unchecked)
              ELSE IF ~req.authenticated
              THEN Answer(Response(401, "auth_expired"), unchecked)
              ELSE IF ~req.body.isArray \/ Len(ts) = 0
              THEN Answer(Response(400, "bad_request"), unchecked)
              ELSE IF findInvalidTrack(ts) = "throws"
              THEN Answer(Response(500, "server_error"), unchecked)
              ELSE IF findInvalidTrack(ts) = "found"
              THEN Answer(Response(400, "bad_request"), unchecked)
              ELSE IF isTooLarge(ts)
              THEN Answer(Response(400, "batch_too_large"), unchecked)
              ELSE LET checked == checkCache(ts, unchecked, now)
                   IN  IF Len(checked.uncachedTracks) > 0
                       THEN AwaitSearch(checked)
                       ELSE Answer(Ok(ts, checked.results, 0), checked)

\* POST goes on after searchTracks has settled: the results are cached and
\* the response is returned; a rejection ends in the catch block
PostSearchResumes ==
    /\ routeState = "searching"
    /\ phase = "called"
    /\ returned # Pending
    /\ routeState' = "idle"
    /\ IF returned = Rejected
       THEN /\ reply' = Response(500, "server_error")
            /\ UNCHANGED <<cacheStore, results, log>>
       ELSE LET stored == cacheResults(returned.value,
                              [store |-> cacheStore, results |-> results, log |-> log],
                              now)
            IN  /\ cacheStore' = stored.store
                /\ results' = stored.results
                /\ log' = stored.log
                /\ reply' = Ok(request.body.tracks, stored.results, N)
    /\ phase' = "off"
    /\ tracks' = <<>>
    /\ queue' = <<>>
    /\ activeCount' = 0
    /\ pipeline' = <<>>
    /\ calls' = <<>>
    /\ responses' = <<>>
    /\ settled' = <<>>
    /\ order' = <<>>
    /\ returned' = Pending
    /\ UNCHANGED <<now, elapsed, served, rateLimitStore, request, evalVars,
                   moreVars>>

\* time passes between two requests
Tick(delay) ==
    /\ routeState = "idle"
    /\ ~elapsed
    /\ 0 < served /\ served < MaxRequests
    /\ elapsed' = TRUE
    /\ now' = now + delay
    /\ UNCHANGED <<routeState, served, cacheStore, rateLimitStore, request, results,
                   reply, log, searchVars, evalVars, moreVars>>

\* in a batch longer than MaxTracks the search calls are answered in the
\* order they were made, and none of them throws
AnswersInTurn(i) ==
    N > MaxTracks => \A j \in 1..N : pipeline[j] = "awaiting" => i <= j

\* the result lists yts answers the route's searches with: a match, a list
\* that is filtered out entirely, and one below the threshold
RouteVideoLists == BatchVideoLists \cup {<<VKaraoke>>, <<VBare99>>}

RouteNext ==
    \/ \E req \in Requests : PostSearch(req)
    \/ SearchTracks
    \/ \E i \in 1..N : \E videos \in (IF N > MaxTracks THEN BatchVideoLists
                                        ELSE RouteVideoLists) :
          AnswersInTurn(i) /\ YtsResolves(i, videos)
    \/ \E i \in 1..N : N <= MaxTracks /\ YtsRejects(i)
    \/ PostSearchResumes
    \/ \E delay \in Delays : Tick(delay)

RouteSpec == RouteInit /\ [][RouteNext]_vars

\* ------------------------------------------------------------------------
\* lib/spotify.ts
\* ------------------------------------------------------------------------
\* the characters of [a-zA-Z0-9]
Alnum ==
    { "a", "b", "c", "d", "e", "f", "g", "h", "i", "j", "k", "l", "m", "n", "o", "p",
      "q", "r", "s", "t", "u", "v", "w", "x", "y", "z",
      "A", "B", "C", "D", "E", "F", "G", "H", "I", "J", "K", "L", "M", "N", "O", "P",
      "Q", "R", "S", "T", "U", "V", "W", "X", "Y", "Z",
      "0", "1", "2", "3", "4", "5", "6", "7", "8", "9" }

RECURSIVE alnumRun(_)
\* the longest run of [a-zA-Z0-9] at the start of cs
alnumRun(cs) ==
    IF cs = <<>> \/ Head(cs) \notin Alnum THEN <<>>
    ELSE <<Head(cs)>> \o alnumRun(Tail(cs))

\* cs.match(/prefix([a-zA-Z0-9]+)/), or with (\?|$) after the group when
\* `closed': the group of the leftmost match, <<>> for no match
matchId(cs, prefix, closed) ==
    LET after(i) == SubSeq(cs, i + Len(prefix) + 1, Len(cs))
        rest(i)  == SubSeq(after(i), Len(alnumRun(after(i))) + 1, Len(after(i)))
        hits     == { i \in 0..(Len(cs) - Len(prefix)) :
                        /\ SubSeq(cs, i + 1, i + Len(prefix)) = prefix
                        /\ alnumRun(after(i)) # <<>>
                        /\ closed => (rest(i) = <<>> \/ Head(rest(i)) = "?") }
    IN  IF hits = {} THEN <<>>
        ELSE alnumRun(after(CHOOSE i \in hits : \A j \in hits : i <= j))

\* the playlist id as characters, <<>> for null
extractPlaylistId[urlOrId \in DOMAIN CharsOf] ==
    LET cs       == CharsOf[urlOrId]
        urlMatch == matchId(cs, CharsOf["playlist/"], TRUE)
        uriMatch == matchId(cs, CharsOf["spotify:playlist:"], FALSE)
    IN  IF cs = <<>> THEN <<>>
        ELSE IF urlMatch # <<>> THEN urlMatch
        ELSE IF uriMatch # <<>> THEN uriMatch
        ELSE IF Len(cs) = 22 /\ alnumRun(cs) = cs THEN cs
        ELSE <<>>

\* name|primaryArtist|durationBucket: the text before the bucket, and the
\* bucket
getDedupeKey(track) ==
    [ text   |-> lowerCase[track.name] \o <<"|">> \o lowerCase[track.primaryArtist],
      bucket |-> track.duration_ms \div 3000 ]

\* the hard cap of tracks per call
BATCH_SIZE == 50

RECURSIVE joinNames(_)
\* artists.map(a => a.name).join(', ')
joinNames(names) ==
    IF names = <<>> THEN <<>>
    ELSE IF Len(names) = 1 THEN CharsOf[names[1]]
    ELSE CharsOf[names[1]] \o <<",", " ">> \o joinNames(Tail(names))

\* the SpotifyTrack made of a playlist item
SpotifyTrack(item) ==
    [ name          |-> item.track.name,
      artists       |-> joinNames(item.track.artists),
      primaryArtist |-> IF item.track.artists = <<>> \/ item.track.artists[1] = ""
                        THEN "Unknown"
                        ELSE item.track.artists[1],
      duration_ms   |-> item.track.duration_ms,
      spotifyUri    |-> item.track.uri ]

\* an item without a track, or with an episode, is skipped
IsSkippedItem(item) == item.track = NullTrack \/ item.track.type # "track"

RECURSIVE dedupeItems(_, _)
\* the loop over data.body.items with its `seen' set
dedupeItems(items, seen) ==
    IF items = <<>> THEN <<>>
    ELSE IF IsSkippedItem(Head(items)) THEN dedupeItems(Tail(items), seen)
    ELSE LET track == SpotifyTrack(Head(items))
             key   == getDedupeKey(track)
         IN  IF key \in seen THEN dedupeItems(Tail(items), seen)
             ELSE <<track>> \o dedupeItems(Tail(items), seen \cup {key})

\* mutant: a chunk is done only when it is short
isDoneWhenShort(processed, total, items) == Len(items) < BATCH_SIZE

\* done = processed >= total || data.body.items.length < BATCH_SIZE
isDone(processed, total, items) == processed >= total \/ Len(items) < BATCH_SIZE

\* fetchPlaylistTracks on a playlist Spotify answers for: `items' are all the
\* items of the playlist, of which Spotify returns those from `offset' on, 50
\* at most
fetchPlaylistTracks(items, listName, offset) ==
    LET total     == Len(items)
        page      == SubSeq(items, offset + 1, Min(offset + BATCH_SIZE, total))
        found     == dedupeItems(page, {})
        processed == offset + Len(found)
        done      == isDone(processed, total, page)
    IN  [ processed    |-> processed,
          total        |-> total,
          tracks       |-> found,
          done         |-> done,
          nextOffset   |-> IF done THEN offset ELSE offset + BATCH_SIZE,
          playlistName |-> listName ]

\* ------------------------------------------------------------------------
\* app/api/playlist/route.ts
\* ------------------------------------------------------------------------
\* the id of the playlist Spotify knows
KnownPlaylistId == <<"a", "b", "c", "1", "2", "3">>

\* how the calls to Spotify of one request end: "ok", a WebapiError with a
\* statusCode, or another error
SpotifyOutcomes == {"ok", "401", "403", "404", "429", "error"}

Json(status, error, message) == [status |-> status, error |-> error, message |-> message]

\* the catch block: the response to an error thrown by the Spotify client
onSpotifyError(statusCode) ==
    IF statusCode = "404"
    THEN Json(404, "playlist_not_found", "Playlist not found. Check the URL.")
    ELSE IF statusCode = "403"
    THEN Json(403, "playlist_not_accessible", "This playlist is private or unavailable.")
    ELSE IF statusCode = "401"
    THEN Json(401, "auth_expired", "Session expired. Please login again.")
    ELSE Json(500, "server_error", "Failed to fetch playlist. Please try again.")

\* POST /api/playlist: the store after the request, the response, whether a
\* call to Spotify failed and whether Spotify was called at all
PostPlaylist(store, cookies, body, time, items, outcome) ==
    LET rateLimitResult == checkRateLimit(store, "client", "playlist", time)
        playlistId      == extractPlaylistId[body.playlistUrl]
        failure         == IF outcome # "ok" THEN outcome
                           ELSE IF playlistId # KnownPlaylistId THEN "404"
                           ELSE "ok"
        ends(res, failed, called) ==
            [store |-> rateLimitResult.store, response |-> res,
             spotifyFailed |-> failed, called |-> called]
    IN  IF ~rateLimitResult.allowed
        THEN ends(Json(429, "rate_limit_exceeded",
                       "Too many playlist requests. Please wait."), FALSE, FALSE)
        ELSE IF "sp_refresh_token" \notin DOMAIN cookies
        THEN ends(Json(401, "auth_expired", "Please login with Spotify first."), FALSE, FALSE)
        ELSE IF body.playlistUrl = ""
        THEN ends(Json(400, "bad_request", "Please provide a playlist URL."), FALSE, FALSE)
        ELSE IF playlistId = <<>>
        THEN ends(Json(400, "invalid_playlist",
                       "Could not parse playlist URL. Check the format."), FALSE, FALSE)
        ELSE IF failure # "ok"
        THEN ends(onSpotifyError(failure), TRUE, TRUE)
        ELSE ends([status |-> 200, error |-> "", message |-> "",
                   result |-> fetchPlaylistTracks(items, "Mix", body.offset)], FALSE, TRUE)

\* ------------------------------------------------------------------------
\* app/page.tsx: Home
\* ------------------------------------------------------------------------
getTrackKey(track) == CharsOf[track.name] \o <<"|">> \o track.artists

\* !url.trim()
IsBlank(url) == \A i \in DOMAIN CharsOf[url] : CharsOf[url][i] = " "

isValidUrl(url) ==
    \/ includes(CharsOf[url], CharsOf["spotify.com/playlist/"])
    \/ includes(CharsOf[url], CharsOf["spotify:playlist:"])

\* the tracks sent per search request
SEARCH_BATCH_SIZE == 10

\* how a search request ends on the server once it is let in
SearchOutcomes == {"ok", "error"}

\* the record /api/search returns for a track of the page: tracks of one
\* artist are matched, the others are not found
ResultFor(track) ==
    IF track.artists = CharsOf["Beyonce"]
    THEN [ track |-> [name |-> track.name, artists |-> track.artists],
           youtubeUrl |-> "yt/1", confidence |-> "HIGH", reason |-> "matched" ]
    ELSE [ track |-> [name |-> track.name, artists |-> track.artists],
           youtubeUrl |-> null, confidence |-> null, reason |-> "no_results" ]

\* POST /api/search as the page sees it: the store after the request and the
\* response
PostSearchSeen(store, cookies, batch, time, outcome) ==
    LET rateLimitResult == checkRateLimit(store, "client", "search", time)
        ends(res) == [store |-> rateLimitResult.store, response |-> res]
    IN  IF ~rateLimitResult.allowed
        THEN ends([ status |-> 429, error |-> "rate_limit_exceeded",
                    message |-> "Too many search requests. Please wait.",
                    retryAfter |-> (rateLimitResult.resetIn + 999) \div 1000 ])
        ELSE IF "sp_refresh_token" \notin DOMAIN cookies
        THEN ends(Json(401, "auth_expired", "Please login with Spotify first."))
        ELSE IF outcome # "ok"
        THEN ends(Json(500, "server_error", "Search failed. Please try again."))
        ELSE ends([ status |-> 200, error |-> "", message |-> "",
                    results |-> [k \in DOMAIN batch |-> ResultFor(batch[k])] ])

\* a response of /api/playlist on record, with the offset it was asked for
Chunk(offset, data) ==
    [offset |-> offset, processed |-> data.processed, total |-> data.total,
     done |-> data.done, nextOffset |-> data.nextOffset]

\* the catch block of fetchPlaylist and of mapToYouTube
Fails(message, faults) ==
    /\ pageError' = message
    /\ pagePhase' = "error"
    /\ task' = NoTask
    /\ history' = [history EXCEPT !.faults = @ + faults]

\* the click on the fetch button: fetchPlaylist up to its first request
FetchPlaylist ==
    /\ routeState = "page"
    /\ served < MaxClicks
    /\ served' = served + 1
    /\ task = NoTask
    /\ isLoggedIn
    /\ pagePhase \notin {"fetching_playlist", "matching_youtube"}
    /\ ~IsBlank(playlistUrl)
    /\ IF ~isValidUrl(playlistUrl)
       THEN /\ pageError' = <<"Enter a valid Spotify playlist URL.">>
            /\ pagePhase' = "error"
            /\ UNCHANGED <<pageTracks, pageResults, progress, task, history>>
       ELSE /\ pagePhase' = "fetching_playlist"
            /\ pageError' = <<>>
            /\ pageTracks' = <<>>
            /\ pageResults' = EmptyMap
            /\ progress' = [current |-> 0, total |-> 0]
            /\ task' = [fn |-> "fetchPlaylist", allTracks |-> <<>>, offset |-> 0,
                        name |-> ""]
            /\ history' = [fn |-> "fetchPlaylist", received |-> <<>>, faults |-> 0,
                           chunks |-> <<>>]
    /\ UNCHANGED <<isLoggedIn, playlistUrl, playlistName, jar, playlist, searchVars,
                   evalVars, routeState, now, elapsed, cacheStore, rateLimitStore,
                   request, results, reply, log, limitVars,
                   restVars>>

\* /api/playlist answers and fetchPlaylist goes on: to its next request, to
\* its end or to its catch block
PlaylistResponds(outcome) ==
    /\ routeState = "page"
    /\ task.fn = "fetchPlaylist"
    /\ elapsed' = FALSE
    /\ LET handled == PostPlaylist(rateLimitStore, jar,
                                   [playlistUrl |-> playlistUrl, offset |-> task.offset],
                                   now, playlist, outcome)
           res     == handled.response
           faults  == IF handled.spotifyFailed THEN 1 ELSE 0
       IN  /\ rateLimitStore' = handled.store
           /\ IF res.status # 200
              THEN /\ isLoggedIn' = (isLoggedIn /\ res.error # "auth_expired")
                   /\ Fails(IF res.error = "auth_expired"
                            THEN <<"Session expired. Please log in again.">>
                            ELSE <<res.message>>, faults)
                   /\ UNCHANGED <<pageTracks, playlistName, progress>>
              ELSE LET data      == res.result
                       allTracks == task.allTracks \o data.tracks
                       name      == IF data.playlistName # "" THEN data.playlistName
                                    ELSE task.name
                   IN  /\ progress' = [current |-> data.processed, total |-> data.total]
                       /\ history' = [history EXCEPT
                              !.received = Append(@, data.tracks),
                              !.chunks = Append(@, Chunk(task.offset, data))]
                       /\ UNCHANGED <<isLoggedIn, pageError>>
                       /\ IF data.done
                          THEN /\ pageTracks' = allTracks
                               /\ playlistName' = name
                               /\ pagePhase' = "idle"
                               /\ task' = NoTask
                          ELSE /\ task' = [task EXCEPT !.allTracks = allTracks,
                                                       !.offset = data.nextOffset,
                                                       !.name = name]
                               /\ UNCHANGED <<pageTracks, playlistName, pagePhase>>
    /\ UNCHANGED <<playlistUrl, pageResults, jar, playlist, searchVars, evalVars,
                   routeState, now, served, cacheStore, request, results, reply, log,
                   limitVars,
                   restVars>>

\* the click on the map button: mapToYouTube up to its first request
MapToYouTube ==
    /\ routeState = "page"
    /\ served < MaxClicks
    /\ served' = served + 1
    /\ task = NoTask
    /\ pageTracks # <<>>
    /\ pagePhase \notin {"fetching_playlist", "matching_youtube"}
    /\ DOMAIN pageResults = {}
    /\ pagePhase' = "matching_youtube"
    /\ pageError' = <<>>
    /\ pageResults' = EmptyMap
    /\ progress' = [current |-> 0, total |-> Len(pageTracks)]
    /\ task' = [fn |-> "mapToYouTube", tracks |-> pageTracks, i |-> 0,
                newResults |-> EmptyMap]
    /\ history' = [fn |-> "mapToYouTube", received |-> <<>>, faults |-> 0,
                   chunks |-> <<>>]
    /\ UNCHANGED <<isLoggedIn, playlistUrl, playlistName, pageTracks, jar, playlist,
                   searchVars, evalVars, routeState, now, elapsed, cacheStore,
                   rateLimitStore, request, results, reply, log, limitVars,
                   restVars>>

\* mutant: the loop ends one batch early
goesOnWithFullBatch(i, ts) == i + SEARCH_BATCH_SIZE < Len(ts)

\* the loop condition of mapToYouTube: i < tracks.length
goesOn(i, ts) == i < Len(ts)

RECURSIVE setAll(_, _)
\* the loop over data.results: newResults.set(getTrackKey(result.track), result)
setAll(map, found) ==
    IF found = <<>> THEN map
    ELSE setAll(MapSet(map, getTrackKey(Head(found).track), Head(found)), Tail(found))

\* /api/search answers and mapToYouTube goes on: to its next request, to its
\* end or to its catch block
SearchResponds(outcome) ==
    /\ routeState = "page"
    /\ task.fn = "mapToYouTube"
    /\ elapsed' = FALSE
    /\ LET batch   == SubSeq(task.tracks, task.i + 1,
                             Min(task.i + SEARCH_BATCH_SIZE, Len(task.tracks)))
           handled == PostSearchSeen(rateLimitStore, jar, batch, now, outcome)
           res     == handled.response
       IN  /\ rateLimitStore' = handled.store
           /\ IF res.status # 200
              THEN /\ Fails(IF res.error = "rate_limit_exceeded"
                            THEN <<"Rate limited. Wait ",
                                   IF res.retryAfter = 0 THEN 60 ELSE res.retryAfter,
                                   "s.">>
                            ELSE <<res.message>>, 0)
                   /\ UNCHANGED <<pageResults, progress>>
              ELSE LET newResults == setAll(task.newResults, res.results)
                       next       == task.i + SEARCH_BATCH_SIZE
                   IN  /\ pageResults' = newResults
                       /\ progress' = [current |-> Min(next, Len(task.tracks)),
                                       total |-> Len(task.tracks)]
                       /\ history' = [history EXCEPT !.received = Append(@, res.results)]
                       /\ pageError' = pageError
                       /\ IF goesOn(next, task.tracks)
                          THEN /\ task' = [task EXCEPT !.i = next,
                                                       !.newResults = newResults]
                               /\ pagePhase' = pagePhase
                          ELSE /\ task' = NoTask
                               /\ pagePhase' = "completed"
    /\ UNCHANGED <<isLoggedIn, playlistUrl, playlistName, pageTracks, jar, playlist,
                   searchVars, evalVars, routeState, now, served, cacheStore, request,
                   results, reply, log, limitVars,
                   restVars>>

\* the click on "Change Spotify account": handleLogout. The session cookie is
\* HttpOnly, so the assignment to document.cookie leaves it in place; a call
\* in flight is not cancelled
HandleLogout ==
    /\ routeState = "page"
    /\ served < MaxClicks
    /\ served' = served + 1
    /\ isLoggedIn' = FALSE
    /\ pageTracks' = <<>>
    /\ pageResults' = EmptyMap
    /\ pagePhase' = "idle"
    /\ playlistName' = ""
    /\ history' = [history EXCEPT !.fn = "handleLogout"]
    /\ UNCHANGED <<playlistUrl, progress, pageError, task, jar, playlist, searchVars,
                   evalVars, routeState, now, elapsed, cacheStore, rateLimitStore,
                   request, results, reply, log, limitVars, restVars>>

\* fetch rejects, or the response is no JSON: the catch block of the call in
\* flight
FetchRejects ==
    /\ routeState = "page"
    /\ task # NoTask
    /\ Fails(<<"Failed to fetch">>, 1)
    /\ UNCHANGED <<isLoggedIn, playlistUrl, playlistName, pageTracks, pageResults,
                   progress, jar, playlist, searchVars, evalVars, routeVars, limitVars,
                   restVars>>

\* time passes while a request is under way
Waits(gap) ==
    /\ routeState = "page"
    /\ task # NoTask
    /\ ~elapsed
    /\ now + gap <= MaxWaits * RATE_LIMITS.playlist.windowMs
    /\ elapsed' = TRUE
    /\ now' = now + gap
    /\ UNCHANGED <<routeState, served, cacheStore, rateLimitStore, request, results,
                   reply, log, searchVars, evalVars, moreVars>>

\* a track item of a playlist: the n-th track of the catalogue
Item(n) ==
    [ track |-> [ type |-> "track", name |-> "Halo",
                  artists |-> IF n <= SEARCH_BATCH_SIZE THEN <<"Beyonce">>
                              ELSE <<"Beyonce", "Jay-Z">>,
                  duration_ms |-> 3000 * n, uri |-> n ] ]

\* the n-th track in another edition: other letter case, 1.5 s longer
Reissue(n) ==
    [ track |-> [ type |-> "track", name |-> "halo",
                  artists |-> IF n <= SEARCH_BATCH_SIZE THEN <<"Beyonce">>
                              ELSE <<"Beyonce", "Jay-Z">>,
                  duration_ms |-> 3000 * n + 1500, uri |-> 1000 + n ] ]

\* an item whose track is gone, and a podcast episode
RemovedItem == [track |-> NullTrack]
EpisodeItem == [track |-> [type |-> "episode", name |-> "Halo", artists |-> <<>>,
                           duration_ms |-> 0, uri |-> 0]]

\* the first n tracks of the catalogue
Items(n) == [i \in 1..n |-> Item(i)]

\* the playlists Spotify may hold under the known id
Playlists ==
    { <<>>,
      <<Item(1), Reissue(1), RemovedItem, Item(2), EpisodeItem, Item(1)>>,
      Items(BATCH_SIZE - 1) \o <<Item(1)>>,
      Items(BATCH_SIZE),
      Items(BATCH_SIZE) \o <<Item(1)>>,
      Items(3 * BATCH_SIZE + 1) }

PlaylistUrls ==
    { "https://open.spotify.com/playlist/abc123?si=1",
      "https://open.spotify.com/playlist/zzz",
      "spotify:playlist:abc123",
      "https://open.spotify.com/playlist/",
      "https://example.com/abc123",
      " " }

\* the page is open and shows the user as logged in; the session cookie is
\* there, or has expired since
ClientInit ==
    /\ SearchOff
    /\ EvalOff
    /\ LimitOff
    /\ RestOff
    /\ routeState = "page"
    /\ now = 0
    /\ elapsed = FALSE
    /\ served = 0
    /\ cacheStore = EmptyMap
    /\ rateLimitStore = EmptyMap
    /\ request = NoRequest
    /\ results = <<>>
    /\ reply = NoResponse
    /\ log = <<>>
    /\ pagePhase = "idle"
    /\ isLoggedIn = TRUE
    /\ playlistUrl \in PlaylistUrls
    /\ playlistName = ""
    /\ pageTracks = <<>>
    /\ pageResults = EmptyMap
    /\ progress = [current |-> 0, total |-> 0]
    /\ pageError = <<>>
    /\ task = NoTask
    /\ jar \in {EmptyMap, MapSet(EmptyMap, "sp_refresh_token", "r1")}
    /\ playlist \in Playlists
    /\ history = NoHistory

ClientNext ==
    \/ FetchPlaylist
    \/ \E outcome \in SpotifyOutcomes : PlaylistResponds(outcome)
    \/ MapToYouTube
    \/ \E outcome \in SearchOutcomes : SearchResponds(outcome)
    \/ HandleLogout
    \/ FetchRejects
    \/ Waits(RATE_LIMITS.playlist.windowMs)

ClientSpec == ClientInit /\ [][ClientNext]_vars

\* ------------------------------------------------------------------------
\* lib/rateLimit.ts: checkRateLimit called over time
\* ------------------------------------------------------------------------
Endpoints == {"playlist", "search", "refresh"}

\* the times that pass between two calls, in ms
Gaps == {1, RATE_LIMITS.playlist.windowMs - 1, RATE_LIMITS.playlist.windowMs}

\* a call on record, with the result it returned
Check(endpoint, fingerprint, time, rateLimitResult) ==
    [endpoint |-> endpoint, fingerprint |-> fingerprint, time |-> time,
     allowed |-> rateLimitResult.allowed, remaining |-> rateLimitResult.remaining,
     resetIn |-> rateLimitResult.resetIn]

\* the store after n calls for one key at time 0
StoreAfter(endpoint, fingerprint, n) ==
    IF n = 0 THEN EmptyMap
    ELSE MapSet(EmptyMap, <<endpoint, fingerprint>>,
                [count |-> n, resetAt |-> RATE_LIMITS[endpoint].windowMs])

\* the server is up; a client has made no call, or all calls but one of the
\* window of an endpoint
LimitInit ==
    /\ SearchOff
    /\ EvalOff
    /\ routeState = "off"
    /\ now = 0
    /\ elapsed = FALSE
    /\ served = 0
    /\ cacheStore = EmptyMap
    /\ request = NoRequest
    /\ results = <<>>
    /\ reply = NoResponse
    /\ log = <<>>
    /\ ClientOff
    /\ RestOff
    /\ \E endpoint \in Endpoints :
          \E n \in {0, RATE_LIMITS[endpoint].maxRequests - 1} :
              /\ rateLimitStore = StoreAfter(endpoint, "client", n)
              /\ checks = [i \in 1..n |->
                    Check(endpoint, "client", 0,
                          [allowed   |-> TRUE,
                           remaining |-> RATE_LIMITS[endpoint].maxRequests - i,
                           resetIn   |-> RATE_LIMITS[endpoint].windowMs])]

\* a route calls checkRateLimit(fingerprint, endpoint)
CheckRateLimit(fingerprint, endpoint) ==
    /\ routeState = "off"
    /\ served < MaxChecks
    /\ served' = served + 1
    /\ elapsed' = FALSE
    /\ LET rateLimitResult == checkRateLimit(rateLimitStore, fingerprint, endpoint, now)
       IN  /\ rateLimitStore' = rateLimitResult.store
           /\ checks' = Append(checks, Check(endpoint, fingerprint, now,
                                             rateLimitResult))
    /\ UNCHANGED <<routeState, now, cacheStore, request, results, reply, log,
                   searchVars, evalVars, clientVars, restVars>>

\* time passes between two calls
Advance(gap) ==
    /\ routeState = "off"
    /\ ~elapsed
    /\ served < MaxChecks
    /\ elapsed' = TRUE
    /\ now' = now + gap
    /\ UNCHANGED <<routeState, served, cacheStore, rateLimitStore, request, results,
                   reply, log, searchVars, evalVars, moreVars>>

LimitNext ==
    \/ \E fingerprint \in Fingerprints : \E endpoint \in Endpoints :
          CheckRateLimit(fingerprint, endpoint)
    \/ \E gap \in Gaps : Advance(gap)

LimitSpec == LimitInit /\ [][LimitNext]_vars

\* ------------------------------------------------------------------------
\* app/api/auth/login/route.ts and app/api/auth/callback/route.ts: each file
\* holds two versions of its handler; `build' says which one is deployed
\* ------------------------------------------------------------------------
MaxVisits == 2

\* the values crypto.randomBytes(16).toString('hex') can give
States == {"s1", "s2"}

undefined == "undefined"

\* cookies().get(name)?.value
cookieValue(cookies, name) ==
    IF name \in DOMAIN cookies THEN cookies[name] ELSE undefined

\* !v for a string, null or undefined
Not(v) == v \in {null, undefined, ""}

\* what a handler hands back: the response, the cookies it sets (with their
\* maxAge in seconds, none for a session cookie) and deletes, and whether it
\* called authorizationCodeGrant
Handled(status, location, set, maxAge, delete, exchanged) ==
    [status |-> status, location |-> location, set |-> set, maxAge |-> maxAge,
     delete |-> delete, exchanged |-> exchanged]

\* a handler that throws: Next.js answers 500; the cookie changes made before
\* the throw are sent along, or not
Thrown(set, delete, exchanged, flushed) ==
    IF flushed THEN Handled(500, "", set, EmptyMap, delete, exchanged)
    ELSE Handled(500, "", EmptyMap, EmptyMap, {}, exchanged)

\* GET /api/auth/login, first version
loginEnv(configured, state) ==
    IF ~configured
    THEN Handled(500, "", EmptyMap, EmptyMap, {}, FALSE)
    ELSE Handled(307, "https://accounts.spotify.com/authorize",
                 MapSet(EmptyMap, "oauth_state", state),
                 MapSet(EmptyMap, "oauth_state", 300), {}, FALSE)

\* GET /api/auth/login, second version
loginClient(configured, state, flushed) ==
    IF ~configured
    THEN Thrown(MapSet(EmptyMap, "sp_state", state), {}, FALSE, flushed)
    ELSE Handled(307, "https://accounts.spotify.com/authorize",
                 MapSet(EmptyMap, "sp_state", state), EmptyMap, {}, FALSE)

\* a check of the state parameter that leaves the stored cookie aside
invalidStateNoCompare(state, storedState) ==
    Not(state)

\* if (!code || !state || state !== storedState), second disjunct onwards
invalidState(state, storedState) ==
    Not(state) \/ state # storedState

\* if (!state || !storedState || state !== storedState)
invalidStoredState(state, storedState) ==
    Not(state) \/ Not(storedState) \/ state # storedState

\* GET /api/auth/callback, first version
callbackForbid(configured, cookies, code, state, outcome, flushed) ==
    LET storedState == cookieValue(cookies, "sp_state")
    IN  IF Not(code) \/ invalidState(state, storedState)
        THEN Handled(403, "", EmptyMap, EmptyMap, {}, FALSE)
        ELSE IF ~configured
        THEN Thrown(EmptyMap, {"sp_state"}, FALSE, flushed)
        ELSE IF outcome # "ok"
        THEN Thrown(EmptyMap, {"sp_state"}, TRUE, flushed)
        ELSE Handled(307, "/", MapSet(EmptyMap, "sp_refresh_token", "r1"),
                     EmptyMap, {"sp_state"}, TRUE)

\* GET /api/auth/callback, second version
callbackRedirect(configured, cookies, code, state, error, outcome, flushed) ==
    LET storedState == cookieValue(cookies, "sp_oauth_state")
    IN  IF ~Not(error)
        THEN Handled(307, "?error=" \o error, EmptyMap, EmptyMap, {}, FALSE)
        ELSE IF invalidStoredState(state, storedState)
        THEN Handled(307, "?error=invalid_state", EmptyMap, EmptyMap, {}, FALSE)
        ELSE IF Not(code)
        THEN Handled(307, "?error=missing_code", EmptyMap, EmptyMap, {}, FALSE)
        ELSE IF ~configured
        THEN Thrown(EmptyMap, {"sp_oauth_state"}, FALSE, flushed)
        ELSE IF outcome # "ok"
        THEN Handled(307, "?error=auth_failed", EmptyMap, EmptyMap,
                     {"sp_oauth_state"}, TRUE)
        ELSE Handled(307, "", MapSet(EmptyMap, "sp_refresh_token", "r1"),
                     MapSet(EmptyMap, "sp_refresh_token", 60 * 60 * 24 * 30),
                     {"sp_oauth_state"}, TRUE)

\* the browser's cookies after a response
cookiesAfter(cookies, handled) ==
    [name \in (DOMAIN cookies \ handled.delete) \cup DOMAIN handled.set |->
        IF name \in DOMAIN handled.set THEN handled.set[name] ELSE cookies[name]]

\* and the times it drops them
expiryAfter(times, handled, time) ==
    [name \in (DOMAIN times \ (handled.delete \cup DOMAIN handled.set))
              \cup DOMAIN handled.maxAge |->
        IF name \in DOMAIN handled.maxAge
        THEN time + 1000 * handled.maxAge[name]
        ELSE times[name]]

\* a request on record: its query parameters, the cookies it carried, what
\* Spotify would answer to the token exchange, and what the handler did
Visit(route, params, sent, grant, handled) ==
    [route |-> route, params |-> params, sent |-> sent, grant |-> grant,
     handled |-> handled]

Params(code, state, error) == [code |-> code, state |-> state, error |-> error]

\* the browser takes the answer of a route
Visited(route, params, grant, handled) ==
    /\ visits' = Append(visits, Visit(route, params, jar, grant, handled))
    /\ jar' = cookiesAfter(jar, handled)
    /\ expiry' = expiryAfter(expiry, handled, now)
    /\ elapsed' = FALSE
    /\ UNCHANGED <<routeState, now, served, cacheStore, rateLimitStore, request,
                   results, reply, log, build, pagePhase, isLoggedIn, playlistUrl,
                   playlistName, pageTracks, pageResults, progress, pageError,
                   task, playlist, history, searchVars, evalVars, limitVars,
                   pairVars>>

\* the user opens /api/auth/login
Login(state, flushed) ==
    /\ routeState = "auth"
    /\ Len(visits) < MaxVisits
    /\ Visited("login", Params(null, state, null), "none",
               IF build.login = 1
               THEN loginEnv(build.configured, state)
               ELSE loginClient(build.configured, state, flushed))

\* a request for /api/auth/callback arrives from the user's browser: Spotify's
\* redirect, or a link somebody made the user follow
Callback(code, state, error, outcome, flushed) ==
    /\ routeState = "auth"
    /\ Len(visits) < MaxVisits
    /\ Visited("callback", Params(code, state, error), outcome,
               IF build.callback = 1
               THEN callbackForbid(build.configured, jar, code, state, outcome,
                                   flushed)
               ELSE callbackRedirect(build.configured, jar, code, state, error,
                                     outcome, flushed))

\* time passes; the browser drops the cookies whose maxAge is over
Elapse(gap) ==
    /\ routeState = "auth"
    /\ ~elapsed
    /\ Len(visits) < MaxVisits
    /\ elapsed' = TRUE
    /\ now' = now + gap
    /\ LET kept == {name \in DOMAIN jar :
                       name \in DOMAIN expiry => expiry[name] > now + gap}
       IN  /\ jar' = [name \in kept |-> jar[name]]
           /\ expiry' = [name \in kept \cap DOMAIN expiry |-> expiry[name]]
    /\ UNCHANGED <<routeState, served, cacheStore, rateLimitStore, request,
                   results, reply, log, build, visits, pagePhase, isLoggedIn,
                   playlistUrl, playlistName, pageTracks, pageResults, progress,
                   pageError, task, playlist, history, searchVars, evalVars,
                   limitVars, pairVars>>

Builds == [login : {1, 2}, callback : {1, 2}, configured : BOOLEAN]

\* the times between two requests, in ms: a second, and the maxAge of the
\* state cookie
Pauses == {1000, 300 * 1000}

\* the app is deployed; the browser holds no cookie of it
AuthInit ==
    /\ SearchOff
    /\ EvalOff
    /\ LimitOff
    /\ routeState = "auth"
    /\ now = 0
    /\ elapsed = FALSE
    /\ served = 0
    /\ cacheStore = EmptyMap
    /\ rateLimitStore = EmptyMap
    /\ request = NoRequest
    /\ results = <<>>
    /\ reply = NoResponse
    /\ log = <<>>
    /\ pagePhase = "idle"
    /\ isLoggedIn = FALSE
    /\ playlistUrl = ""
    /\ playlistName = ""
    /\ pageTracks = <<>>
    /\ pageResults = EmptyMap
    /\ progress = [current |-> 0, total |-> 0]
    /\ pageError = <<>>
    /\ task = NoTask
    /\ jar = EmptyMap
    /\ playlist = <<>>
    /\ history = NoHistory
    /\ build \in Builds
    /\ expiry = EmptyMap
    /\ visits = <<>>
    /\ PairOff

AuthNext ==
    \/ \E state \in States : \E flushed \in BOOLEAN : Login(state, flushed)
    \/ \E code \in {null, "c1"} : \E state \in {null} \cup States :
       \E error \in {null, "access_denied"} : \E outcome \in {"ok", "error"} :
       \E flushed \in BOOLEAN :
          Callback(code, state, error, outcome, flushed)
    \/ \E gap \in Pauses : Elapse(gap)

AuthSpec == AuthInit /\ [][AuthNext]_vars

\* ------------------------------------------------------------------------
\* app/api/auth/refresh/route.ts, and the three rate limited routes side by
\* side
\* ------------------------------------------------------------------------
\* how getAccessTokenFromRefresh ends
RefreshOutcomes == {"ok", "error"}

\* mutant: the session is looked up before the rate limit
PostRefreshAuthFirst(store, cookies, time, outcome) ==
    LET rateLimitResult == checkRateLimit(store, "client", "refresh", time)
    IN  IF "sp_refresh_token" \notin DOMAIN cookies
        THEN [store |-> store, called |-> FALSE,
              response |-> Json(401, "auth_expired", "Please login with Spotify first.")]
        ELSE IF ~rateLimitResult.allowed
        THEN [store |-> rateLimitResult.store, called |-> FALSE,
              response |-> Json(429, "rate_limit_exceeded",
                                "Too many refresh attempts. Please wait.")]
        ELSE [store |-> rateLimitResult.store, called |-> TRUE,
              response |-> IF outcome = "ok" THEN Json(200, "", "")
                           ELSE Json(401, "refresh_failed",
                                     "Failed to refresh token. Please login again.")]

\* POST /api/auth/refresh: the store after the request, the response, and
\* whether Spotify was called
PostRefresh(store, cookies, time, outcome) ==
    LET rateLimitResult == checkRateLimit(store, "client", "refresh", time)
        ends(res, called) == [store |-> rateLimitResult.store, response |-> res,
                              called |-> called]
    IN  IF ~rateLimitResult.allowed
        THEN ends(Json(429, "rate_limit_exceeded",
                       "Too many refresh attempts. Please wait."), FALSE)
        ELSE IF "sp_refresh_token" \notin DOMAIN cookies
        THEN ends(Json(401, "auth_expired", "Please login with Spotify first."), FALSE)
        ELSE IF outcome = "ok"
        THEN ends(Json(200, "", ""), TRUE)
        ELSE ends(Json(401, "refresh_failed",
                       "Failed to refresh token. Please login again."), TRUE)

SpotifyCall == [op |-> "spotify"]

\* the cookies of a request with and without a session
Session == MapSet(EmptyMap, "sp_refresh_token", "r1")

CookieJars == {EmptyMap, Session}

\* a request to /api/playlist or /api/auth/refresh
Posted(route, cookies, body) ==
    [route |-> route, fingerprint |-> "client",
     authenticated |-> "sp_refresh_token" \in DOMAIN cookies, body |-> body]

\* a request to /api/playlist or /api/auth/refresh is handled
Served(req, handled) ==
    /\ routeState = "idle"
    /\ served < MaxRequests
    /\ served' = served + 1
    /\ request' = req
    /\ rateLimitStore' = handled.store
    /\ reply' = Response(handled.response.status, handled.response.error)
    /\ log' = IF handled.called THEN <<SpotifyCall>> ELSE <<>>
    /\ results' = <<>>
    /\ UNCHANGED <<routeState, now, elapsed, cacheStore, searchVars, evalVars,
                   moreVars>>

PostPlaylistRequest(cookies, body, outcome) ==
    Served(Posted("playlist", cookies, body),
           PostPlaylist(rateLimitStore, cookies, body, now, Items(1), outcome))

PostRefreshRequest(cookies, outcome) ==
    Served(Posted("refresh", cookies, <<>>),
           PostRefresh(rateLimitStore, cookies, now, outcome))

\* the bodies posted to /api/playlist: no url, a url without an id, a url
\* of the playlist
GatePlaylistBodies ==
    [ playlistUrl : {"", "https://open.spotify.com/playlist/",
                     "https://open.spotify.com/playlist/abc123?si=1"},
      offset : {0} ]

\* the requests posted to /api/search
GateRequests ==
    [ fingerprint : Fingerprints, authenticated : BOOLEAN,
      body : {Body(FALSE, <<>>), Body(TRUE, <<NoName>>), Body(TRUE, <<TrackA>>)} ]

\* the store when the client has used all requests but one of the window of
\* every route
AllButOne ==
    [ key \in { <<endpoint, "client">> : endpoint \in {"playlist", "search", "refresh"} } |->
        [count |-> RATE_LIMITS[key[1]].maxRequests - 1,
         resetAt |-> RATE_LIMITS[key[1]].windowMs] ]

GateInit ==
    /\ SearchOff
    /\ EvalOff
    /\ MoreOff
    /\ routeState = "idle"
    /\ now = 0
    /\ elapsed = FALSE
    /\ served = 0
    /\ cacheStore = EmptyMap
    /\ rateLimitStore \in {EmptyMap, AllButOne}
    /\ request = NoRequest
    /\ results = <<>>
    /\ reply = NoResponse
    /\ log = <<>>

GateNext ==
    \/ \E req \in GateRequests : PostSearch(req)
    \/ SearchTracks
    \/ \E i \in 1..N : \E videos \in BatchVideoLists : YtsResolves(i, videos)
    \/ PostSearchResumes
    \/ \E cookies \in CookieJars : \E body \in GatePlaylistBodies :
       \E outcome \in SpotifyOutcomes :
          PostPlaylistRequest(cookies, body, outcome)
    \/ \E cookies \in CookieJars : \E outcome \in RefreshOutcomes :
          PostRefreshRequest(cookies, outcome)

GateSpec == GateInit /\ [][GateNext]_vars

\* ------------------------------------------------------------------------
\* Properties
\* ------------------------------------------------------------------------
Positions == 1..Len(tracks)

IsFulfilled(i) == settled[i].state = "fulfilled"

AnswersOf(i) == {responses[i][k] : k \in DOMAIN responses[i]}

\* a response the query loop skips: a throw or an empty list
IsSkipped(response) == response = Throws \/ response.videos = <<>>

Reasons ==
    { "matched", "no_results", "low_confidence", "negative_keyword", "no_match",
      "search_error" }

\* the record of position i as its own track and its own answers give it: the
\* catch of the task when the queries cannot be built, else the outcome of the
\* first answer that is not skipped, else no_results
OwnRecord(i) ==
    LET decisive == {k \in DOMAIN responses[i] : ~IsSkipped(responses[i][k])}
    IN  IF queriesThrow(tracks[i]) THEN searchError(tracks[i])
        ELSE IF decisive = {} THEN SearchResult(tracks[i], NullResult("no_results"))
        ELSE LET k == CHOOSE d \in decisive : \A e \in decisive : d <= e
             IN  SearchResult(tracks[i], onVideos(tracks[i], responses[i][k].videos))

\* C1: when searchTracks resolves, it resolves to exactly one record per input
\* track, and the record at position i carries input track i, whatever the
\* order in which the pipelines completed.
C1_OrderPreserved ==
    returned.state = "fulfilled" =>
        /\ Len(returned.value) = Len(tracks)
        /\ \A i \in Positions : returned.value[i].track = tracks[i]

\* C1 witness: a resolved batch of three whose second pipeline completed first
\* and whose first completed last, on different tracks
C1_Witness ==
    /\ returned.state = "fulfilled"
    /\ order = <<2, 3, 1>>
    /\ tracks[1] # tracks[2]
    /\ tracks[2] # tracks[3]

\* C2: at most 2 pipelines have started and not yet finished.
C2_AtMostTwoRunning ==
    Cardinality({i \in Positions : pipeline[i] = "awaiting"}) <= 2

\* C2 witness: two pipelines run while a third track waits for a slot
C2_Witness ==
    /\ Cardinality({i \in Positions : pipeline[i] = "awaiting"}) = 2
    /\ queue # <<>>

\* every search call of position i was answered by a throw and its pipeline
\* has ended
AllSearchesThrew(i) ==
    /\ pipeline[i] = "done"
    /\ responses[i] # <<>>
    /\ AnswersOf(i) = {Throws}

\* C3: a track whose every search call threw gets a record with null URL, null
\* confidence and reason no_results or search_error; the batch is not rejected
\* and every other track's record is the one its own answers give.
C3_FailSoft ==
    \A i \in Positions : AllSearchesThrew(i) =>
        /\ IsFulfilled(i)
        /\ settled[i].value.youtubeUrl = null
        /\ settled[i].value.confidence = null
        /\ settled[i].value.reason \in {"no_results", "search_error"}
        /\ returned # Rejected
        /\ \A j \in Positions \ {i} :
              /\ settled[j] # Rejected
              /\ IsFulfilled(j) => settled[j].value = OwnRecord(j)

\* C3 witness: all three searches of one track threw and a sibling is matched
C3_Witness ==
    \E i, j \in Positions :
        /\ AllSearchesThrew(i)
        /\ Len(responses[i]) = 3
        /\ IsFulfilled(j)
        /\ settled[j].value.reason = "matched"

\* C4: searchTracks never rejects, no task's promise rejects, the batch is
\* resolved once every pipeline has ended, and every record it resolves to is
\* a SearchResult with one of the six reasons.
C4_NeverRejects ==
    /\ returned # Rejected
    /\ \A i \in Positions : settled[i] # Rejected
    /\ (phase = "called" /\ \A i \in Positions : pipeline[i] = "done")
          => returned.state = "fulfilled"
    /\ returned.state = "fulfilled" =>
          \A i \in DOMAIN returned.value :
              /\ DOMAIN returned.value[i] =
                    {"track", "youtubeUrl", "title", "channel", "confidence", "reason"}
              /\ returned.value[i].reason \in Reasons

\* C4 witness: a resolved batch in which a search call threw, a search call
\* returned videos and a track's queries could not be built
C4_Witness ==
    /\ returned.state = "fulfilled"
    /\ \E i \in Positions : Throws \in AnswersOf(i)
    /\ \E i \in Positions : \E r \in AnswersOf(i) : ~IsSkipped(r)
    /\ \E i \in Positions : returned.value[i].reason = "search_error"

\* an error was thrown in the pipeline of position i: the queries could not
\* be built, or a search call threw
PipelineThrew(i) == queriesThrow(tracks[i]) \/ Throws \in AnswersOf(i)

\* C5 as stated: a track whose pipeline threw at any stage has the record
\* search_error with null URL and null confidence.
C5_AnyThrowIsSearchError ==
    \A i \in Positions : (IsFulfilled(i) /\ PipelineThrew(i)) =>
        /\ settled[i].value.reason = "search_error"
        /\ settled[i].value.youtubeUrl = null
        /\ settled[i].value.confidence = null

\* C5 as amended: the record is search_error, with null URL and null
\* confidence, exactly when the error leaves searchSingleTrack (the queries
\* cannot be built); a throwing search call is skipped inside the query loop,
\* and a track none of whose calls returned videos ends as no_results with
\* null URL and null confidence.
C5_OnlyEscapingErrorIsSearchError ==
    \A i \in Positions : IsFulfilled(i) =>
        /\ settled[i].value.reason = "search_error" <=> queriesThrow(tracks[i])
        /\ settled[i].value.reason = "search_error" =>
              /\ settled[i].value.youtubeUrl = null
              /\ settled[i].value.confidence = null
        /\ (Throws \in AnswersOf(i) /\ \A r \in AnswersOf(i) : IsSkipped(r)) =>
              /\ settled[i].value.reason = "no_results"
              /\ settled[i].value.youtubeUrl = null
              /\ settled[i].value.confidence = null

\* C5 witness: one batch holds a track whose queries could not be built
\* (search_error) and a track whose search calls threw (no_results)
C5_Witness ==
    \E i, j \in Positions :
        /\ IsFulfilled(i) /\ queriesThrow(tracks[i])
        /\ settled[i].value.reason = "search_error"
        /\ IsFulfilled(j) /\ Throws \in AnswersOf(j)
        /\ settled[j].value.reason = "no_results"

\* C6: in every record, confidence is null exactly when youtubeUrl is null.
C6_ConfidenceUrlCoupling ==
    \A i \in Positions : IsFulfilled(i) =>
        (settled[i].value.confidence = null <=> settled[i].value.youtubeUrl = null)

\* C6 witness: a batch with a record carrying URL and confidence and a
\* record carrying neither
C6_Witness ==
    \E i, j \in Positions :
        /\ IsFulfilled(i) /\ IsFulfilled(j)
        /\ settled[i].value.youtubeUrl # null /\ settled[i].value.confidence # null
        /\ settled[j].value.youtubeUrl = null /\ settled[j].value.confidence = null

\* C7: reason is matched exactly for confidence HIGH or MEDIUM, low_confidence
\* exactly for LOW, and every other reason has null confidence.
C7_ReasonMatchesConfidence ==
    \A i \in Positions : IsFulfilled(i) =>
        LET r == settled[i].value
        IN  /\ r.reason = "matched" <=> r.confidence \in {"HIGH", "MEDIUM"}
            /\ r.reason = "low_confidence" <=> r.confidence = "LOW"
            /\ r.reason \notin {"matched", "low_confidence"} => r.confidence = null

\* C7 witness: a LOW match, reported as low_confidence
C7_Witness ==
    \E i \in Positions :
        /\ IsFulfilled(i)
        /\ settled[i].value.confidence = "LOW"
        /\ settled[i].value.reason = "low_confidence"

\* the candidates of the answer that ended the pipeline of position i
LastCandidates(i) ==
    LET videos == responses[i][Len(responses[i])].videos
    IN  filterAndScore(SubSeq(videos, 1, Min(10, Len(videos))), tracks[i])

\* the pipeline of position i ended on an answer with a surviving candidate
HasWinner(i) ==
    /\ IsFulfilled(i)
    /\ responses[i] # <<>>
    /\ ~IsSkipped(responses[i][Len(responses[i])])
    /\ LastCandidates(i) # <<>>

\* the winning score, in tenths of a point
WinningScore(i) == sortCandidates(LastCandidates(i))[1].score

QueryOrder(track) ==
    << <<track.name, " ", track.artists, " official audio">>,
       <<track.name, " ", track.artists, " official">>,
       <<track.name, " ", track.artists>> >>

\* C9: the queries are issued in the order official audio, official, plain,
\* each at most once and one at a time; a query is issued only after every
\* earlier one threw or returned an empty list; a pipeline that ends was
\* decided by its first non-empty list, or ends as no_results after all three
\* queries threw or were empty.
C9_QueryFallback ==
    \A i \in Positions : ~queriesThrow(tracks[i]) =>
        /\ Len(calls[i]) <= 3
        /\ calls[i] = SubSeq(QueryOrder(tracks[i]), 1, Len(calls[i]))
        /\ Len(responses[i]) =
              Len(calls[i]) - (IF pipeline[i] = "awaiting" THEN 1 ELSE 0)
        /\ \A k \in 1..(Len(calls[i]) - 1) : IsSkipped(responses[i][k])
        /\ pipeline[i] = "done" =>
              /\ IsFulfilled(i)
              /\ responses[i] # <<>>
              /\ LET last == responses[i][Len(responses[i])]
                 IN  IF IsSkipped(last)
                     THEN /\ Len(responses[i]) = 3
                          /\ settled[i].value.reason = "no_results"
                     ELSE /\ settled[i].value.reason # "no_results"
                          /\ settled[i].value =
                                SearchResult(tracks[i], onVideos(tracks[i], last.videos))

\* C9 witness: the first query threw, the second returned an empty list and
\* the third one decided the outcome
C9_Witness ==
    \E i \in Positions :
        /\ pipeline[i] = "done"
        /\ Len(responses[i]) = 3
        /\ responses[i][1] = Throws
        /\ responses[i][2] = Returns(<<>>)
        /\ ~IsSkipped(responses[i][3])
        /\ settled[i].value.reason = "matched"

\* the filter removes every considered video of the list
AllRemoved(track, videos) ==
    \A k \in 1..Min(10, Len(videos)) : ~KeepsVideo(videos[k], track)

\* C10: a non-empty list every considered video of which is removed by the
\* filter ends the pipeline at once: no further query is issued and the
\* record is negative_keyword (never no_results) with null URL and null
\* confidence.
C10_AllFilteredIsNegativeKeyword ==
    \A i \in Positions : \A k \in DOMAIN responses[i] :
        (~IsSkipped(responses[i][k]) /\ AllRemoved(tracks[i], responses[i][k].videos)) =>
            /\ Len(calls[i]) = k
            /\ pipeline[i] = "done"
            /\ IsFulfilled(i)
            /\ settled[i].value.reason = "negative_keyword"
            /\ settled[i].value.youtubeUrl = null
            /\ settled[i].value.confidence = null

\* C10 witness: after an empty first query, the second returns two videos,
\* one removed for its keyword and one for its duration alone
C10_Witness ==
    \E i \in Positions :
        /\ Len(responses[i]) = 2
        /\ responses[i][1] = Returns(<<>>)
        /\ responses[i][2] = Returns(<<VKaraoke, VLong>>)
        /\ ~hasNegativeKeyword[VLong.title]
        /\ settled[i].value.reason = "negative_keyword"

\* ------------------------------------------------------------------------
\* Properties of the filter, the scorer and the ranking (EvalSpec)
\* ------------------------------------------------------------------------
\* what the catalogue's strings are, read by eye: the seconds of the
\* timestamps that parse to a positive duration
SecondsOf ==
    "4:21" :> 261 @@ "4:20" :> 260 @@ "1:02:03" :> 3723 @@ "4:51" :> 291 @@
    "4:52" :> 292 @@ "4:11" :> 251 @@ "4:10" :> 250 @@ "4:26" :> 266 @@
    "4:27" :> 267

\* the timestamps that do not parse, and the zero duration
UnknownDurations == {"", "n/a", "0:00"}

\* the titles with a denylisted word, and those with a positive keyword
NegativeTitles == {"Halo KARAOKE"}

PositiveTitles ==
    { "Beyonce - Halo (Official Audio)", "Halo (Audio)", "Hola (Audio)",
      "Beyonce Halo Audio", "Beyonce Hola Audio", "Beyonce Audio" }

\* the channels with an official pattern in their name
PatternChannels == {"BeyonceVEVO", "Beyonce - Topic", "Official Lyrics"}

DurationKnown(track) == track \in {TrackA, TrackHalf}

\* T = round(durationMs / 1000), halves upwards
RoundedSeconds[track \in {TrackA, TrackHalf}] ==
    CHOOSE T \in 0..400 :
        /\ 1000 * T - 500 <= track.duration_ms
        /\ track.duration_ms < 1000 * T + 500

\* the videos the loop considers, and whether one became a candidate
Considered == SubSeq(evalVideos, 1, Min(10, Len(evalVideos)))

IsCandidate(video) ==
    \E j \in DOMAIN evalCandidates : evalCandidates[j].video = video

Filtered == evalStage \in {"scored", "ranked"}

\* the duration signal: both durations known and at most 5 seconds apart
DurationSignal(track, video) ==
    /\ DurationKnown(track)
    /\ video.timestamp \in DOMAIN SecondsOf
    /\ Abs(RoundedSeconds[track] - SecondsOf[video.timestamp]) <= 5

\* the weighted sum of the six signals, in tenths of a point
SignalSum(track, video) ==
    4 * video.fuzzyRatio
    + 250 * Bit(DurationSignal(track, video))
    + 150 * Bit(video.titleArtistSimilarity > 80 \/ video.channelArtistSimilarity > 80)
    + 100 * Bit(video.author.name \in PatternChannels \/ video.channelRatio > 85)
    + 50 * Bit(video.title \in PositiveTitles)
    + (IF video.views > 10000000 THEN 50
       ELSE IF video.views > 1000000 THEN 25
       ELSE 0)

\* C11: with the track's duration known, a video whose duration string does
\* not parse, or is "0:00", is not dropped by the duration rule and is a
\* candidate without the duration bonus, scored on the remaining signals.
C11_UnknownDurationIsKept ==
    (Filtered /\ DurationKnown(evalTrack)) =>
        \A k \in DOMAIN Considered :
            LET video == Considered[k]
            IN  (video.timestamp \in UnknownDurations /\ video.title \notin NegativeTitles) =>
                    \E j \in DOMAIN evalCandidates :
                        /\ evalCandidates[j].video = video
                        /\ ~evalCandidates[j].hasDurationMatch
                        /\ evalCandidates[j].score = SignalSum(evalTrack, video)

\* C12: with the track's duration known and the video's duration s > 0, the
\* video is dropped by the duration rule exactly when s > T + 30 or
\* s < T - 10, T being round(durationMs / 1000); at T + 30 and at T - 10 it is
\* kept.
C12_DurationWindow ==
    (Filtered /\ DurationKnown(evalTrack)) =>
        \A k \in DOMAIN Considered :
            LET video == Considered[k]
                T     == RoundedSeconds[evalTrack]
            IN  (video.timestamp \in DOMAIN SecondsOf /\ video.title \notin NegativeTitles) =>
                    LET s == SecondsOf[video.timestamp]
                    IN  ~IsCandidate(video) <=> (s > T + 30 \/ s < T - 10)

\* C12 witness: a video at T + 30 and a video at T - 10 are both kept, for a
\* track whose duration is half a second short of T
C12_Witness ==
    /\ Filtered
    /\ evalTrack = TrackHalf
    /\ evalVideos = <<VPlus30, VMinus10>>
    /\ IsCandidate(VPlus30) /\ IsCandidate(VMinus10)

\* the five criteria of a candidate, in priority order
Key(c) == <<c.score, Bit(c.hasDurationMatch), Bit(c.isOfficial), c.fuzzyScore, c.video.views>>

\* x is above y: higher on the first criterion they differ on
Above(x, y) ==
    \E i \in 1..5 : x[i] > y[i] /\ \A j \in 1..(i - 1) : x[j] = y[j]

HaloKey == <<"h", "a", "l", "o", "|", "b", "e", "y", "o", "n", "c", "e">>

DuetKey == HaloKey \o <<",", " ", "j", "a", "y", "-", "z">>

IdentityOf(track) == IF track.artists = "Beyonce, Jay-Z" THEN DuetKey ELSE HaloKey

\* POST has returned its response to `request'
Answered == routeState = "idle" /\ served > 0

\* the entry of the track was set at most 24 hours before `time'
Fresh(store, track, time) ==
    /\ IdentityOf(track) \in DOMAIN store
    /\ time - store[IdentityOf(track)].timestamp <= 86400000

CallsOf(op) == SelectSeq(log, LAMBDA e : e.op = op)

\* C15: the results of a 200 response have one entry per input track, and
\* entry i is that of input track i.
C15_OneEntryPerTrackInOrder ==
    (Answered /\ reply.status = 200) =>
        /\ Len(reply.results) = Len(request.body.tracks)
        /\ \A i \in DOMAIN request.body.tracks :
              IdentityOf(reply.results[i].track) = IdentityOf(request.body.tracks[i])

\* C16: searchTracks is called with exactly the tracks whose cache lookup
\* missed, in their order, and not at all when none missed; a track with an
\* entry not older than 24 hours is not among them and its cached record is
\* taken as its result.
C16_OnlyMissesAreSearched ==
    [][ /\ (served' = served + 1 /\ reply'.status \in {0, 200}) =>
              LET ts     == request'.body.tracks
                  missed == SelectSeq(ts, LAMBDA x : ~Fresh(cacheStore, x, now))
              IN  /\ IF missed = <<>>
                     THEN /\ routeState' = "idle"
                          /\ phase' = "off"
                          /\ \A k \in DOMAIN log' : log'[k].op # "search"
                     ELSE /\ routeState' = "searching"
                          /\ phase' = "idle"
                          /\ tracks' = missed
                          /\ log'[Len(log')] = SearchCall(missed)
                  /\ \A i \in DOMAIN ts :
                        Fresh(cacheStore, ts[i], now) =>
                            \E k \in DOMAIN results' :
                                results'[k] = cacheStore[IdentityOf(ts[i])].data
        /\ (phase = "idle" /\ phase' = "called") =>
              /\ routeState = "searching"
              /\ tracks' = tracks
              /\ log[Len(log)] = SearchCall(tracks)
      ]_vars

\* C16 witness: of the two tracks of a request one is served from the cache
\* and the other one alone is handed to searchTracks
C16_Witness ==
    /\ routeState = "searching"
    /\ phase = "called"
    /\ request.body.tracks = <<TrackA, TrackDuet>>
    /\ tracks = <<TrackDuet>>
    /\ Len(results) = 1 /\ results[1].track = TrackA

\* C17: in one POST no two pipelines evaluate the same identity (lower-cased
\* name and artists).
C17_IdentityEvaluatedOnce ==
    (routeState = "searching" /\ phase = "called") =>
        \A i, j \in DOMAIN tracks :
            (i # j /\ pipeline[i] # "queued" /\ pipeline[j] # "queued") =>
                IdentityOf(tracks[i]) # IdentityOf(tracks[j])

\* C18: the outcome of every track evaluated by searchTracks is written to
\* the cache exactly once, under its lower-cased name and artists, after the
\* search has ended; nothing is written for a cache hit or while the search
\* runs.
C18_WrittenOnceAfterSearch ==
    LET sets     == CallsOf("set")
        searches == CallsOf("search")
    IN  /\ Len(searches) <= 1
        /\ routeState = "searching" => sets = <<>>
        /\ searches = <<>> => sets = <<>>
        /\ (Answered /\ reply.status = 200 /\ searches # <<>>) =>
              /\ log = CallsOf("get") \o searches \o sets
              /\ Len(sets) = Len(searches[1].tracks)
              /\ \A i \in DOMAIN sets :
                    /\ sets[i].result.track = searches[1].tracks[i]
                    /\ sets[i].key = IdentityOf(searches[1].tracks[i])
                    /\ sets[i].key \in DOMAIN cacheStore
                    /\ ~elapsed => cacheStore[sets[i].key].timestamp = now
                    /\ \E j \in DOMAIN sets :
                          /\ sets[j].key = sets[i].key
                          /\ cacheStore[sets[i].key].data = sets[j].result

\* C18 witness: a request with one cache hit and one searched track has made
\* one write, for the searched track
C18_Witness ==
    /\ Answered
    /\ reply.status = 200
    /\ reply.cached = 1 /\ reply.searched = 1
    /\ Len(CallsOf("set")) = 1
    /\ CallsOf("set")[1].key = DuetKey
    /\ CallsOf("get")[1].found

\* C19: a lookup returns the entry exactly when at most 24 hours have passed
\* since it was set; an older entry is deleted by the lookup; a set stamps
\* the entry with the time of the set, and nothing else changes an entry.
C19_TwentyFourHours ==
    [][ /\ served' = served + 1 =>
              \A i \in DOMAIN log' :
                  log'[i].op = "get" =>
                      LET key == log'[i].key
                      IN  /\ log'[i].found <=>
                                /\ key \in DOMAIN cacheStore
                                /\ now - cacheStore[key].timestamp <= 86400000
                          /\ log'[i].found =>
                                \E k \in DOMAIN results' :
                                    results'[k] = cacheStore[key].data
                          /\ ( /\ key \in DOMAIN cacheStore
                               /\ now - cacheStore[key].timestamp > 86400000 ) =>
                                key \notin DOMAIN cacheStore'
        /\ \A key \in DOMAIN cacheStore' :
              \/ key \in DOMAIN cacheStore /\ cacheStore'[key] = cacheStore[key]
              \/ /\ cacheStore'[key].timestamp = now
                 /\ \E i \in DOMAIN log' : log'[i] = CacheSet(key, cacheStore'[key].data)
      ]_vars

\* C19 witness: an entry set at time 0 and set again after more than 24
\* hours is returned 24 hours after the second set
C19_Witness ==
    /\ Answered
    /\ served = 3
    /\ now = 2 * CACHE_TTL_MS + 1
    /\ reply.status = 200 /\ reply.cached = 1 /\ reply.searched = 0
    /\ cacheStore[HaloKey].timestamp = CACHE_TTL_MS + 1

\* the tracks value is not an array, is empty, has more than 10 elements or
\* holds a track without name or artists
BadTracks(body) ==
    \/ ~body.isArray
    \/ Len(body.tracks) = 0
    \/ Len(body.tracks) > 10
    \/ \E i \in DOMAIN body.tracks :
          /\ body.tracks[i] # NullTrack
          /\ \/ "name" \notin DOMAIN body.tracks[i]
             \/ "artists" \notin DOMAIN body.tracks[i]
             \/ body.tracks[i].name = ""

\* C20: a request that passed the rate limit and the session check and whose
\* tracks value is bad is answered with 400, without a cache read, a cache
\* write or a search call.
C20_BadTracksIs400 ==
    (Answered /\ reply.status \notin {429, 401} /\ BadTracks(request.body)) =>
        /\ reply.status = 400
        /\ log = <<>>
        /\ phase = "off"

\* ------------------------------------------------------------------------
\* Properties of the rate limiter (LimitSpec)
\* ------------------------------------------------------------------------
\* requests per minute, by endpoint
PerMinute(endpoint) ==
    IF endpoint = "playlist" THEN 3 ELSE IF endpoint = "search" THEN 10 ELSE 5

\* the allowed calls of the key of call i in the 60 seconds that begin with it
AllowedFrom(i) ==
    { j \in DOMAIN checks :
        /\ checks[j].allowed
        /\ checks[j].endpoint = checks[i].endpoint
        /\ checks[j].fingerprint = checks[i].fingerprint
        /\ checks[i].time <= checks[j].time
        /\ checks[j].time < checks[i].time + 60000 }

\* C21: for every endpoint and fingerprint, no interval of 60 seconds has
\* more than maxRequests allowed calls (3 playlist, 10 search, 5 refresh).
C21_AtMostMaxPerMinute ==
    \A i \in DOMAIN checks :
        checks[i].allowed => Cardinality(AllowedFrom(i)) <= PerMinute(checks[i].endpoint)

\* ------------------------------------------------------------------------
\* Properties of the page (ClientSpec)
\* ------------------------------------------------------------------------
\* the urls that name the playlist Spotify knows
GoodUrls == {"https://open.spotify.com/playlist/abc123?si=1", "spotify:playlist:abc123"}

\* the call of `fn' has ended
Ended(fn) == history.fn = fn /\ task = NoTask

\* the song a track is an edition of: tracks of one song have the same
\* lower-cased name, primary artist and 3-second bucket
SongOfUri(uri) == IF uri > 1000 THEN uri - 1000 ELSE uri

SongOf(track) == SongOfUri(track.spotifyUri)

\* the songs of the playlist, and of the tracks the page shows
SongsOfPlaylist ==
    { SongOfUri(playlist[i].track.uri) :
        i \in { k \in DOMAIN playlist :
                  /\ playlist[k] # RemovedItem
                  /\ playlist[k] # EpisodeItem } }

SongsOfPage == { SongOf(pageTracks[k]) : k \in DOMAIN pageTracks }

\* C22: with a session, a url of the playlist and no Spotify or network
\* error, fetchPlaylist ends in phase idle with every song of the playlist
\* loaded, whatever the size of the playlist.
C22_PlaylistFetchedCompletely ==
    ( /\ Ended("fetchPlaylist")
      /\ history.faults = 0
      /\ "sp_refresh_token" \in DOMAIN jar
      /\ playlistUrl \in GoodUrls ) =>
        /\ pagePhase = "idle"
        /\ SongsOfPlaylist \subseteq SongsOfPage

\* the tracks accumulated by the fetch loop so far
Accumulated == IF task.fn = "fetchPlaylist" THEN task.allTracks ELSE pageTracks

\* C23: the track list accumulated over the chunks of a playlist has no two
\* tracks with the same dedupe key.
C23_NoDuplicateTracks ==
    \A i, j \in DOMAIN Accumulated :
        i # j => SongOf(Accumulated[i]) # SongOf(Accumulated[j])

\* the key of a result in `results', written out
HaloBeyonce == <<"H", "a", "l", "o", "|", "B", "e", "y", "o", "n", "c", "e">>

ResultKey(result) ==
    IF Len(result.track.artists) = 7 THEN HaloBeyonce
    ELSE HaloBeyonce \o <<",", " ", "J", "a", "y", "-", "Z">>

\* what the requests of the failed call returned before the failure
ReceivedSoFar == UNION { {history.received[k][n] : n \in DOMAIN history.received[k]} :
                         k \in DOMAIN history.received }

\* C24: after a call failed partway, what its earlier requests returned is in
\* the state of the page: the tracks of earlier chunks in `tracks', the
\* entries of earlier batches in `results'.
C24_PartialResultsKept ==
    (pagePhase = "error" /\ task = NoTask) =>
        /\ history.fn = "fetchPlaylist" =>
              \A track \in ReceivedSoFar :
                  \E k \in DOMAIN pageTracks : pageTracks[k] = track
        /\ history.fn = "mapToYouTube" =>
              \A result \in ReceivedSoFar :
                  /\ ResultKey(result) \in DOMAIN pageResults
                  /\ pageResults[ResultKey(result)].track = result.track

\* ------------------------------------------------------------------------
\* Properties of the OAuth routes (AuthSpec)
\* ------------------------------------------------------------------------
Logins == {j \in DOMAIN visits : visits[j].route = "login"}

Callbacks == {k \in DOMAIN visits : visits[k].route = "callback"}

SetsRefreshToken(k) == "sp_refresh_token" \in DOMAIN visits[k].handled.set

\* the login at j redirected to Spotify and set a cookie with its state, and
\* the request at k carries that cookie and that state as its parameter
CarriesStateOf(j, k) ==
    /\ visits[j].handled.status = 307
    /\ \E name \in DOMAIN visits[j].handled.set :
          /\ visits[j].handled.set[name] = visits[j].params.state
          /\ name \in DOMAIN visits[k].sent
          /\ visits[k].sent[name] = visits[j].params.state
    /\ visits[k].params.state = visits[j].params.state

\* C25: a callback that follows a login, carries a code and the state of the
\* login, and comes with the login's state cookie unchanged and unexpired,
\* passes the state validation (the token exchange is attempted) and, when the
\* exchange succeeds, sets the sp_refresh_token cookie
C25_LoginThenCallbackSetsToken ==
    \A k \in Callbacks : \A j \in Logins :
        ( /\ j < k
          /\ visits[k].params.code # null
          /\ visits[k].params.error = null
          /\ CarriesStateOf(j, k) )
        => /\ visits[k].handled.exchanged
           /\ visits[k].grant = "ok" => SetsRefreshToken(k)

\* the values of the state cookies a request carries, whatever their name
StoredStates(k) ==
    {visits[k].sent[name] : name \in DOMAIN visits[k].sent \ {"sp_refresh_token"}}

\* C26: the callback sets sp_refresh_token only for a request with a code and
\* a state parameter equal to the stored state cookie; when the state is
\* missing or differs, no token exchange is attempted and no cookie is set
C26_TokenOnlyAfterStateCheck ==
    \A k \in Callbacks :
        /\ SetsRefreshToken(k) =>
              /\ visits[k].params.code # null
              /\ visits[k].params.state \in StoredStates(k)
        /\ visits[k].params.state \notin StoredStates(k) =>
              /\ ~visits[k].handled.exchanged
              /\ visits[k].handled.set = EmptyMap

\* a callback with a code and the stored state was let through, and the
\* browser holds the refresh token
C26_Witness ==
    \E k \in Callbacks : SetsRefreshToken(k) /\ jar["sp_refresh_token"] = "r1"

\* ------------------------------------------------------------------------
\* Termination of searchTracks (LiveSpec)
\* ------------------------------------------------------------------------
Holders == {i \in DOMAIN pipeline : pipeline[i] = "awaiting"}

\* C27: when every search call ends, a called searchTracks resolves, every
\* track, queued ones included, gets its slot and ends with its record, and
\* the slots held are those of the pipelines that have not ended yet
C27_EventuallyResolves ==
    /\ (phase = "called")
          ~> (/\ returned # Pending
              /\ \A i \in DOMAIN pipeline :
                    pipeline[i] = "done" /\ settled[i] # Pending)
    /\ [](activeCount = Cardinality(Holders))

\* a batch of three: the third track waited for a slot, got it, and
\* searchTracks has resolved
C27_Witness ==
    /\ phase = "called"
    /\ N >= 3
    /\ returned # Pending
    /\ order # <<>> /\ order[1] # 3
    /\ calls[3] # <<>>

\* ------------------------------------------------------------------------
\* The search calls of a batch (Spec)
\* ------------------------------------------------------------------------
\* the search calls of position i that have not ended
InFlight(i) == Len(calls[i]) - Len(responses[i])

Searching == {i \in Positions : InFlight(i) > 0}

\* C28: a pipeline has at most one search call in flight, issues no query
\* string twice and so makes at most 3 calls, and a batch has at most 2
\* search calls in flight
C28_SequentialQueries ==
    /\ \A i \in Positions :
          /\ InFlight(i) \in {0, 1}
          /\ \A a, b \in DOMAIN calls[i] : a # b => calls[i][a] # calls[i][b]
          /\ Len(calls[i]) <= 3
    /\ Cardinality(Searching) <= 2

\* two pipelines await a search call, one of them its third
C28_Witness ==
    /\ Cardinality(Searching) = 2
    /\ \E i \in Searching : Len(calls[i]) = 3 /\ Len(responses[i]) = 2

\* ------------------------------------------------------------------------
\* The top 10 of a result list (EvalSpec)
\* ------------------------------------------------------------------------
FirstTen == {k \in DOMAIN evalVideos : k <= 10}

\* C29: only the first 10 videos of the result list are filtered and scored:
\* every candidate and the returned match are among them, and when each of
\* the first 10 has a negative keyword the outcome is negative_keyword with no
\* URL, whatever stands at position 11 or later
C29_OnlyTopTenConsidered ==
    /\ Filtered =>
          \A j \in DOMAIN evalCandidates :
              \E k \in FirstTen : evalCandidates[j].video = evalVideos[k]
    /\ evalStage = "ranked" =>
          /\ evalResult.youtubeUrl # null =>
                \E k \in FirstTen : evalVideos[k].url = evalResult.youtubeUrl
          /\ (\A k \in FirstTen : evalVideos[k].title \in NegativeTitles) =>
                /\ evalResult.reason = "negative_keyword"
                /\ evalResult.youtubeUrl = null

\* ten karaoke videos and the official audio at position 11: the outcome is
\* negative_keyword
C29_Witness ==
    /\ evalStage = "ranked"
    /\ Len(evalVideos) > 10
    /\ \A k \in FirstTen : evalVideos[k] = VKaraoke
    /\ evalVideos[11] = VOfficial
    /\ evalResult.reason = "negative_keyword"

\* ------------------------------------------------------------------------
\* Two calls of searchTracks at once (PairSpec)
\* ------------------------------------------------------------------------
RunningOf(stages) == {i \in DOMAIN stages : stages[i] = "awaiting"}

WaitingOf(stages) == {i \in DOMAIN stages : stages[i] = "queued"}

\* C30: each call of searchTracks has its own limiter: each has at most 2
\* pipelines running, a queued pipeline of a call waits only while 2 pipelines
\* of that same call run, whatever the other call does, and the two calls
\* together have up to 4 running
C30_LimiterPerInvocation ==
    /\ Cardinality(RunningOf(pipeline)) <= 2
    /\ Cardinality(RunningOf(other.machine.pipeline)) <= 2
    /\ (phase = "called" /\ WaitingOf(pipeline) # {}) =>
          Cardinality(RunningOf(pipeline)) = 2
    /\ (other.phase = "called" /\ WaitingOf(other.machine.pipeline) # {}) =>
          Cardinality(RunningOf(other.machine.pipeline)) = 2

\* both calls are under way, each with 2 pipelines running and one queued: 4
\* pipelines run
C30_Witness ==
    /\ phase = "called"
    /\ other.phase = "called"
    /\ Cardinality(RunningOf(pipeline)) = 2
    /\ Cardinality(RunningOf(other.machine.pipeline)) = 2
    /\ WaitingOf(pipeline) # {}
    /\ WaitingOf(other.machine.pipeline) # {}

\* ------------------------------------------------------------------------
\* Null outcomes in the cache (RouteSpec)
\* ------------------------------------------------------------------------
\* the store holds a record without URL for this very track, set at most 24
\* hours before `time'
FreshNull(store, track, time) ==
    /\ Fresh(store, track, time)
    /\ store[IdentityOf(track)].data.youtubeUrl = null
    /\ store[IdentityOf(track)].data.track = track

\* C31: a record with a null URL is cached like a match: once the search has
\* ended it is in the store under its track's identity, and a request within
\* 24 hours for that track is not searched and is answered with the cached
\* record
C31_NullOutcomesAreCached ==
    [][ /\ (routeState = "searching" /\ routeState' = "idle" /\ reply'.status = 200) =>
              \A i \in DOMAIN returned.value :
                  returned.value[i].youtubeUrl = null =>
                      LET key == IdentityOf(returned.value[i].track)
                      IN  /\ key \in DOMAIN cacheStore'
                          /\ cacheStore'[key].timestamp = now
                          /\ \E j \in DOMAIN returned.value :
                                /\ IdentityOf(returned.value[j].track) = key
                                /\ cacheStore'[key].data = returned.value[j]
        /\ (served' = served + 1 /\ reply'.status \in {0, 200}) =>
              LET ts == request'.body.tracks
              IN  \A i \in DOMAIN ts :
                      FreshNull(cacheStore, ts[i], now) =>
                          /\ \A k \in DOMAIN tracks' : tracks'[k] # ts[i]
                          /\ \E k \in DOMAIN results' :
                                results'[k] = cacheStore[IdentityOf(ts[i])].data
                          /\ reply'.status = 200 =>
                                \E k \in DOMAIN reply'.results :
                                    reply'.results[k] = cacheStore[IdentityOf(ts[i])].data
      ]_vars

\* a track whose one result was below the threshold was asked for again and
\* answered from the cache, without a search
C31_Witness ==
    /\ Answered
    /\ reply.status = 200
    /\ reply.searched = 0
    /\ request.body.tracks = <<TrackA>>
    /\ reply.results[1].youtubeUrl = null
    /\ reply.results[1].reason = "no_match"
    /\ CallsOf("get")[1].found

\* ------------------------------------------------------------------------
\* Windows of the rate limiter (LimitSpec)
\* ------------------------------------------------------------------------
SameKey(i, j) ==
    /\ checks[i].endpoint = checks[j].endpoint
    /\ checks[i].fingerprint = checks[j].fingerprint

RECURSIVE RanksFrom(_, _, _)
\* the place of every call among the calls of its window, from call k on:
\* `open' holds, by key, the time of the call that opened the current window
\* and the calls counted in it; a call opens a window when its key has none
\* or when 60 seconds have passed since the window was opened
RanksFrom(k, open, ranks) ==
    IF k > Len(checks) THEN ranks
    ELSE LET key   == <<checks[k].endpoint, checks[k].fingerprint>>
             opens == \/ key \notin DOMAIN open
                      \/ checks[k].time >= open[key].since + 60000
             rank  == IF opens THEN 1 ELSE open[key].calls + 1
             since == IF opens THEN checks[k].time ELSE open[key].since
         IN  RanksFrom(k + 1,
                       [x \in DOMAIN open \cup {key} |->
                           IF x = key THEN [since |-> since, calls |-> rank]
                           ELSE open[x]],
                       Append(ranks, rank))

Ranks == RanksFrom(1, <<>>, <<>>)

\* C32: every stored count is between 1 and maxRequests, and of the calls of
\* one window, from the call that created the entry until its resetAt, the
\* first maxRequests are allowed and all later ones are denied
C32_CountWithinWindow ==
    /\ \A key \in DOMAIN rateLimitStore :
          /\ 1 <= rateLimitStore[key].count
          /\ rateLimitStore[key].count <= PerMinute(key[1])
    /\ \E ranks \in {Ranks} :
          \A i \in DOMAIN checks :
              checks[i].allowed <=> ranks[i] <= PerMinute(checks[i].endpoint)

\* a window that was used up: the call after its last allowed one is denied
\* and the stored count stays at maxRequests
C32_Witness ==
    \E ranks \in {Ranks} : \E j \in DOMAIN checks :
        /\ ranks[j] = PerMinute(checks[j].endpoint) + 1
        /\ ~checks[j].allowed
        /\ j = Len(checks)
        /\ rateLimitStore[<<checks[j].endpoint, checks[j].fingerprint>>].count
              = PerMinute(checks[j].endpoint)

\* the call made by this step, when it is one
Called == Len(checks') = Len(checks) + 1

LastKey == <<checks'[Len(checks')].endpoint, checks'[Len(checks')].fingerprint>>

\* C33: a denied call leaves the store as it was, count and resetAt of its
\* key included, and a call changes the entry of no key but its own
C33_DeniedCallsWriteNothing ==
    [][ Called =>
          /\ ~checks'[Len(checks')].allowed => rateLimitStore' = rateLimitStore
          /\ \A key \in (DOMAIN rateLimitStore \cup DOMAIN rateLimitStore') \ {LastKey} :
                /\ key \in DOMAIN rateLimitStore
                /\ key \in DOMAIN rateLimitStore'
                /\ rateLimitStore'[key] = rateLimitStore[key]
      ]_vars

\* a call was denied after time had passed in its window, while the store
\* holds the entry of another key as well
C33_Witness ==
    /\ checks # <<>>
    /\ ~checks[Len(checks)].allowed
    /\ checks[Len(checks)].resetIn < 60000
    /\ Cardinality(DOMAIN rateLimitStore) >= 2

\* C34: the first call at or after the resetAt of its key is allowed, returns
\* remaining = maxRequests - 1 and opens a window of windowMs from that call
C34_AllowedAgainAtReset ==
    [][ (Called /\ LastKey \in DOMAIN rateLimitStore
                /\ rateLimitStore[LastKey].resetAt <= now) =>
          /\ checks'[Len(checks')].allowed
          /\ checks'[Len(checks')].remaining = PerMinute(LastKey[1]) - 1
          /\ checks'[Len(checks')].resetIn = 60000
          /\ rateLimitStore'[LastKey] = [count |-> 1, resetAt |-> now + 60000]
      ]_vars

\* a client that was denied calls again exactly at resetAt and is allowed
C34_Witness ==
    \E i, j \in DOMAIN checks :
        /\ i < j
        /\ SameKey(i, j)
        /\ ~checks[i].allowed
        /\ checks[j].time = checks[i].time + checks[i].resetIn
        /\ checks[j].allowed
        /\ checks[j].remaining = PerMinute(checks[j].endpoint) - 1

\* ------------------------------------------------------------------------
\* Properties of the three rate limited routes (GateSpec)
\* ------------------------------------------------------------------------
\* the route a request was posted to
RouteOf(req) == IF "route" \in DOMAIN req THEN req.route ELSE "search"

\* the requests the client has used of the window of a route
Used(store, route) ==
    IF <<route, "client">> \in DOMAIN store THEN store[<<route, "client">>].count ELSE 0

\* C35: on /api/search, /api/playlist and /api/auth/refresh the rate limit
\* comes before authentication and validation: a request over the limit is
\* answered 429 whatever it carries, with no cache, search or Spotify call
\* and no change of the cache, and a request answered 401 or 400 has used
\* one request of the window.
C35_RateLimitBeforeAuth ==
    [][ served' = served + 1 =>
          LET route == RouteOf(request')
              used  == Used(rateLimitStore, route)
          IN  IF used >= PerMinute(route)
              THEN /\ reply'.status = 429
                   /\ log' = <<>>
                   /\ cacheStore' = cacheStore
                   /\ routeState' = "idle"
                   /\ phase' = "off"
              ELSE /\ reply'.status # 429
                   /\ reply'.status \in {401, 400} =>
                         Used(rateLimitStore', route) = used + 1 ]_vars

\* a refresh request without a session is answered 429 after an earlier
\* refresh request used the last request of the window
C35_Witness ==
    /\ served = 2
    /\ RouteOf(request) = "refresh"
    /\ ~request.authenticated
    /\ reply.status = 429
    /\ Used(rateLimitStore, "refresh") = 5
    /\ Used(rateLimitStore, "playlist") = 2
    /\ Used(rateLimitStore, "search") = 9

\* ------------------------------------------------------------------------
\* Properties of the loops of the page (ClientSpec)
\* ------------------------------------------------------------------------
\* the items Spotify returns from an offset on
ChunkSize(offset) ==
    IF Len(playlist) - offset <= 0 THEN 0
    ELSE IF Len(playlist) - offset < 50 THEN Len(playlist) - offset
    ELSE 50

\* C36: the fetch loop ends after finitely many requests: the k-th request
\* asks for offset 50 * (k - 1), a response is done exactly when its chunk
\* has fewer than 50 items or processed >= total, a response that is not
\* done has nextOffset = offset + 50 and one that is done has nextOffset =
\* offset and is the last, so a playlist of n items takes n / 50 + 1
\* requests at most.
C36_FetchLoopTerminates ==
    history.fn \in {"fetchPlaylist", "handleLogout"} =>
        /\ Len(history.chunks) <= Len(playlist) \div 50 + 1
        /\ \A k \in DOMAIN history.chunks :
              LET chunk == history.chunks[k]
              IN  /\ chunk.offset = 50 * (k - 1)
                  /\ chunk.done <=> ( \/ ChunkSize(chunk.offset) < 50
                                      \/ chunk.processed >= chunk.total )
                  /\ ~chunk.done => chunk.nextOffset = chunk.offset + 50
                  /\ chunk.done => /\ chunk.nextOffset = chunk.offset
                                   /\ k = Len(history.chunks)
                                   /\ task = NoTask

\* a playlist of more than 150 items is fetched in four requests
C36_Witness ==
    /\ history.fn = "fetchPlaylist"
    /\ Len(history.chunks) = 4
    /\ history.chunks[4].done
    /\ ~history.chunks[3].done
    /\ pagePhase = "idle"

\* the tracks of the k-th batch of n tracks
BatchLength(k, n) == IF 10 * k <= n THEN 10 ELSE n - 10 * (k - 1)

\* C37: the phase becomes completed only in mapToYouTube, when every batch
\* of its tracks has been answered OK, and progress.current =
\* progress.total = tracks.length then; a batch that fails sets the phase
\* to error and ends the call, so that no later batch is requested.
C37_CompletedAfterEveryBatch ==
    [][ /\ (pagePhase' = "completed" /\ pagePhase # "completed") =>
              /\ task.fn = "mapToYouTube"
              /\ task' = NoTask
              /\ 10 * Len(history'.received) >= Len(task.tracks)
              /\ \A k \in DOMAIN history'.received :
                    Len(history'.received[k]) = BatchLength(k, Len(task.tracks))
              /\ progress'.current = Len(task.tracks)
              /\ progress'.total = Len(task.tracks)
        /\ ( /\ task.fn = "mapToYouTube"
             /\ task' # task
             /\ history'.received = history.received ) =>
              /\ pagePhase' = "error"
              /\ task' = NoTask ]_vars

\* a playlist of 50 tracks is completed with its fifth batch
C37_Witness ==
    /\ pagePhase = "completed"
    /\ history.fn = "mapToYouTube"
    /\ Len(history.received) = 5
    /\ progress = [current |-> 50, total |-> 50]

\* C38: from handleLogout to the next click the page stays reset: no tracks,
\* no results, phase idle, whatever a call in flight at the logout receives
\* afterwards.
C38_LogoutStaysReset ==
    history.fn = "handleLogout" =>
        /\ pageTracks = <<>>
        /\ DOMAIN pageResults = {}
        /\ pagePhase = "idle"

====
